---- MODULE Spec2Model ----
(***************************************************************************)
(* A model of the cfn command line tool (jordiprats/cfn-tool):             *)
(*   - cfn tail   (src/cmd/tail.go, runTail): the event tailing loop       *)
(*   - cfn drift  (src/cmd/resources.go, runDrift): the drift poll loop    *)
(*   - cfn list   (src/cmd/list.go, runList / runResourceSearch /          *)
(*                 searchStackTemplate): the resource search               *)
(* Each command is one process invocation; the three are never run         *)
(* together, so each has a specification of its own (SpecTail, SpecDrift,  *)
(* SpecList) over the same variables, the other commands' variables idle.  *)
(***************************************************************************)
EXTENDS Integers, Sequences, FiniteSets, TLC

VARIABLES
    \* ---- cfn tail ----
    log,            \* the provider's event log of the stack, newest first
    tpc,            \* runTail's position: seed, select, fetch, done, fatal
    since,          \* tail.go:40   the high-water mark
    seenEventIDs,   \* tail.go:42   ids seen at the high-water mark
    tout,           \* what runTail has written to stdout, line by line
    ctxDone,        \* tail.go:34   the NotifyContext has been cancelled
    tickPending,    \* tail.go:76   a tick is waiting in ticker.C (buffer 1)
    terr,           \* tail.go:85   how the last poll's listEvents ended
    polled,         \* history: some poll of the loop has returned events
    polledKeys,     \* history: the events the last such poll returned
    emitted,        \* history: event lines the last poll iteration printed
    \* ---- cfn drift ----
    dpc,            \* runDrift's position
    wait,           \* resources.go:91  the --wait flag
    dout,           \* what runDrift has written to stdout, line by line
    statusQueries,  \* DescribeStackDriftDetectionStatus calls issued
    detectCalls,    \* DetectStackDrift calls issued
    driftFetches,   \* DescribeStackResourceDrifts listings begun
    dfatal,         \* the message of the fatalf that ended runDrift
    answers,        \* history: the provider's answers to the status queries
    drifted,        \* resources.go:149  the drifted resources fetched so far
    pagesLeft,      \* the pages the drift paginator has still to return
    \* ---- cfn list ----
    lpc,            \* runList's position
    resourceType,   \* list.go:26   --type
    resourceName,   \* list.go:27   --resource-name
    properties,     \* list.go:28   the --property arguments, as given
    ignoreCase,     \* list.go:21   --ignore-case
    provider,       \* what ListStacks will answer: the candidate stacks
    stacks,         \* list.go:95   the stacks listStacks returned
    propertyFilters,\* list.go:124  the parsed property filters
    idx,            \* list.go:162  the candidate the search loop is at
    searched,       \* history: per candidate, what searchStackTemplate returned
    matching,       \* list.go:161  matchingStackSummaries
    listCalls,      \* ListStacks listings issued
    templateFetches,\* GetTemplate calls issued
    lfatal,         \* how runList ended: the fatalf or exit message
    namesOnly,      \* list.go:25   --names-only
    lout,           \* the stacks runList has printed, in order
    \* ---- one call of a helper function ----
    cpc,            \* the call's position: call, returned
    cargs,          \* the arguments of the call
    cret            \* what the call returned

tailVars  == <<log, tpc, since, seenEventIDs, tout, ctxDone, tickPending, terr,
               polled, polledKeys, emitted>>
driftVars == <<dpc, wait, dout, statusQueries, detectCalls, driftFetches, dfatal,
               answers, drifted, pagesLeft>>
listVars  == <<lpc, resourceType, resourceName, properties, ignoreCase, provider,
               stacks, propertyFilters, idx, searched, matching, listCalls,
               templateFetches, lfatal, namesOnly, lout>>
callVars  == <<cpc, cargs, cret>>
vars == <<tailVars, driftVars, listVars, callVars>>

(***************************************************************************)
(* Bounds of the model.                                                    *)
(***************************************************************************)
MaxEvents == 3        \* events the provider's log ever holds
MaxTs == 2            \* distinct event timestamps: 1..MaxTs
MaxInProgress == 3    \* IN_PROGRESS answers before the provider must end
MaxStacks == 2        \* candidate stacks of a resource search
MaxPages == 2         \* pages of a drifted-resources listing
MaxDiffs == 1         \* property differences of one drifted resource

(***************************************************************************)
(* cfn tail: src/cmd/tail.go                                               *)
(***************************************************************************)

\* The zero time.Time of `var since time.Time`: before every event timestamp.
ZeroTime == 0

\* getValue(nil) of a missing EventId: the empty string.
EmptyId == <<>>

Timestamps == 1..MaxTs

\* A StackEvent: key is the event's identity in the provider's log (never seen
\* by the program), EventId is <<key>> or empty, Timestamp is always present
\* (a required member, and what the log is ordered by).
EventOf(k, hasId, ts) ==
    [key |-> k, EventId |-> IF hasId THEN <<k>> ELSE EmptyId, Timestamp |-> ts]

\* The provider keeps the log newest first: a new event goes in front of the
\* events that are not newer than it.
InsertNewestFirst(l, e) ==
    LET p == Cardinality({i \in DOMAIN l : l[i].Timestamp > e.Timestamp})
    IN  SubSeq(l, 1, p) \o <<e>> \o SubSeq(l, p + 1, Len(l))

\* listEvents: all pages appended, cut to limit when limit > 0.
listEvents(l, limit) ==
    IF limit > 0 /\ Len(l) >= limit THEN SubSeq(l, 1, limit) ELSE l

\* The lines runTail writes to stdout.
BannerLine == [line |-> "Tailing", key |-> 0, ts |-> 0]
EventLine(e) == [line |-> "event", key |-> e.key, ts |-> e.Timestamp]
StoppedLine == [line |-> "Stopped", key |-> 0, ts |-> 0]

\* A plausible slip: every event at the high-water mark counts as new again.
IsNewEventNoDedup(e, sinceV, seen) ==
    e.Timestamp >= sinceV

\* A plausible slip: only events strictly after the high-water mark count.
IsNewEventAfterOnly(e, sinceV, seen) ==
    e.Timestamp > sinceV

\* tail.go:97-114: is a fetched event collected into newEvents.
IsNewEvent(e, sinceV, seen) ==
    \/ e.Timestamp > sinceV
    \/ /\ e.Timestamp = sinceV
       /\ e.EventId # EmptyId
       /\ e.EventId \notin seen

\* A plausible slip: the collecting loop stops at the first new event.
CollectNewStopsAtFirst(events, sinceV, seen) ==
    LET found == SelectSeq(events, LAMBDA e : IsNewEvent(e, sinceV, seen))
    IN  IF found = <<>> THEN <<>> ELSE <<found[1]>>

CollectNew(events, sinceV, seen) ==
    SelectSeq(events, LAMBDA e : IsNewEvent(e, sinceV, seen))

\* A plausible slip: printing newEvents front to back (newest first).
RECURSIVE EmitNewestFirst(_, _, _)
EmitNewestFirst(newEvents, i, st) ==
    IF i = 0 THEN st
    ELSE LET e == newEvents[Len(newEvents) + 1 - i]
         IN  EmitNewestFirst(newEvents, i - 1,
                [seen  |-> IF e.EventId # EmptyId
                           THEN st.seen \cup {e.EventId} ELSE st.seen,
                 since |-> IF e.Timestamp > st.since
                           THEN e.Timestamp ELSE st.since,
                 out   |-> Append(st.out, EventLine(e))])

\* A plausible slip: the high-water mark is left where the seed put it.
RECURSIVE EmitNewKeepsMark(_, _, _)
EmitNewKeepsMark(newEvents, i, st) ==
    IF i = 0 THEN st
    ELSE LET e == newEvents[i]
         IN  EmitNewKeepsMark(newEvents, i - 1,
                [seen  |-> IF e.EventId # EmptyId
                           THEN st.seen \cup {e.EventId} ELSE st.seen,
                 since |-> st.since,
                 out   |-> Append(st.out, EventLine(e))])

\* tail.go:116-135: newEvents printed from its last element to its first,
\* each id recorded, the high-water mark advanced. st = [seen, since, out].
RECURSIVE EmitNew(_, _, _)
EmitNew(newEvents, i, st) ==
    IF i = 0 THEN st
    ELSE LET e == newEvents[i]
         IN  EmitNew(newEvents, i - 1,
                [seen  |-> IF e.EventId # EmptyId
                           THEN st.seen \cup {e.EventId} ELSE st.seen,
                 since |-> IF e.Timestamp > st.since
                           THEN e.Timestamp ELSE st.since,
                 out   |-> Append(st.out, EventLine(e))])

\* No helper function is called on its own.
CallIdle == cpc = "idle" /\ cargs = <<>> /\ cret = <<>>

\* No fatalf has happened.
NoFatal == [msg |-> "none", reason |-> "none"]

TailIdleDrift ==
    /\ dpc = "idle" /\ wait = FALSE /\ dout = <<>> /\ statusQueries = 0
    /\ detectCalls = 0 /\ driftFetches = 0 /\ dfatal = NoFatal
    /\ answers = <<>> /\ drifted = <<>> /\ pagesLeft = <<>>

TailIdleList ==
    /\ lpc = "idle" /\ resourceType = <<>> /\ resourceName = <<>>
    /\ properties = <<>> /\ ignoreCase = FALSE /\ provider = <<>>
    /\ stacks = <<>> /\ propertyFilters = <<>> /\ idx = 0 /\ searched = <<>>
    /\ matching = <<>> /\ listCalls = 0 /\ templateFetches = 0
    /\ lfatal = "none" /\ namesOnly = FALSE /\ lout = <<>>

TailInit ==
    /\ log = <<>>
    /\ tpc = "seed"
    /\ since = ZeroTime
    /\ seenEventIDs = {}
    /\ tout = <<>>
    /\ ctxDone = FALSE
    /\ tickPending = FALSE
    /\ terr = "none"
    /\ polled = FALSE
    /\ polledKeys = {}
    /\ emitted = 0
    /\ TailIdleDrift
    /\ TailIdleList
    /\ CallIdle

\* The provider: the stack gets a new event, with or without an EventId.
AppendEvent ==
    /\ tpc \in {"seed", "select", "fetch"}
    /\ Len(log) < MaxEvents
    /\ \E ts \in Timestamps, hasId \in BOOLEAN :
          log' = InsertNewestFirst(log, EventOf(Len(log) + 1, hasId, ts))
    /\ UNCHANGED <<tpc, since, seenEventIDs, tout, ctxDone, tickPending, terr,
                   polled, polledKeys, emitted>>
    /\ UNCHANGED <<driftVars, listVars, callVars>>

\* The operator: SIGINT or SIGTERM cancels the context (tail.go:34).
Interrupt ==
    /\ tpc \in {"seed", "select", "fetch"}
    /\ ~ctxDone
    /\ ctxDone' = TRUE
    /\ UNCHANGED <<log, tpc, since, seenEventIDs, tout, tickPending, terr,
                   polled, polledKeys, emitted>>
    /\ UNCHANGED <<driftVars, listVars, callVars>>

\* A plausible slip: the seed event's id is not remembered.
SeedOkForgetsId ==
    /\ tpc = "seed"
    /\ LET events == listEvents(log, 1)
           found  == Len(events) > 0
       IN  /\ since' = IF found THEN events[1].Timestamp ELSE since
           /\ tout' = IF found THEN <<BannerLine, EventLine(events[1])>>
                      ELSE <<BannerLine>>
    /\ tpc' = "select"
    /\ UNCHANGED <<log, seenEventIDs, ctxDone, tickPending, terr, polled,
                   polledKeys, emitted>>
    /\ UNCHANGED <<driftVars, listVars, callVars>>

\* tail.go:44-74: the seed fetch (limit 1) succeeded; banner and seed event.
SeedOk ==
    /\ tpc = "seed"
    /\ LET events == listEvents(log, 1)
           found  == Len(events) > 0
       IN  /\ since' = IF found THEN events[1].Timestamp ELSE since
           /\ seenEventIDs' = IF found /\ events[1].EventId # EmptyId
                              THEN {events[1].EventId} ELSE seenEventIDs
           /\ tout' = IF found THEN <<BannerLine, EventLine(events[1])>>
                      ELSE <<BannerLine>>
    /\ tpc' = "select"
    /\ UNCHANGED <<log, ctxDone, tickPending, terr, polled, polledKeys, emitted>>
    /\ UNCHANGED <<driftVars, listVars, callVars>>

\* tail.go:45-47: the seed fetch failed: fatalf, exit status 1.
SeedFail ==
    /\ tpc = "seed"
    /\ tpc' = "fatal"
    /\ UNCHANGED <<log, since, seenEventIDs, tout, ctxDone, tickPending, terr,
                   polled, polledKeys, emitted>>
    /\ UNCHANGED <<driftVars, listVars, callVars>>

\* The ticker (tail.go:76): a tick arrives; one is kept, further ones dropped.
Tick ==
    /\ tpc \in {"select", "fetch"}
    /\ ~tickPending
    /\ tickPending' = TRUE
    /\ UNCHANGED <<log, tpc, since, seenEventIDs, tout, ctxDone, terr,
                   polled, polledKeys, emitted>>
    /\ UNCHANGED <<driftVars, listVars, callVars>>

\* A select that ends the loop only when no tick is there to take.
SelectCancelAfterTick ==
    /\ tpc = "select"
    /\ ctxDone
    /\ tickPending
    /\ tout' = Append(tout, StoppedLine)
    /\ tpc' = "done"
    /\ UNCHANGED <<log, since, seenEventIDs, ctxDone, tickPending, terr,
                   polled, polledKeys, emitted>>
    /\ UNCHANGED <<driftVars, listVars, callVars>>

\* tail.go:81-83: the select takes the ctx.Done() case.
SelectCancel ==
    /\ tpc = "select"
    /\ ctxDone
    /\ tout' = Append(tout, StoppedLine)
    /\ tpc' = "done"
    /\ UNCHANGED <<log, since, seenEventIDs, ctxDone, tickPending, terr,
                   polled, polledKeys, emitted>>
    /\ UNCHANGED <<driftVars, listVars, callVars>>

\* tail.go:84-85: the select takes the ticker case and starts the fetch. Go's
\* select picks among the ready cases at random: with the context cancelled
\* and a tick pending, either this or SelectCancel happens.
SelectTick ==
    /\ tpc = "select"
    /\ tickPending
    /\ tickPending' = FALSE
    /\ tpc' = "fetch"
    /\ UNCHANGED <<log, since, seenEventIDs, tout, ctxDone, terr,
                   polled, polledKeys, emitted>>
    /\ UNCHANGED <<driftVars, listVars, callVars>>

\* A fetch failure retried at once, without waiting for a tick.
PollFailRetry ==
    /\ tpc = "fetch"
    /\ terr' = IF ctxDone THEN "silent" ELSE "warned"
    /\ tpc' = "fetch"
    /\ emitted' = 0
    /\ UNCHANGED <<log, since, seenEventIDs, tout, ctxDone, tickPending,
                   polled, polledKeys>>
    /\ UNCHANGED <<driftVars, listVars, callVars>>

\* A fetch failure that ends the session, as the seed's does.
PollFailFatal ==
    /\ tpc = "fetch"
    /\ terr' = IF ctxDone THEN "silent" ELSE "warned"
    /\ tpc' = "fatal"
    /\ emitted' = 0
    /\ UNCHANGED <<log, since, seenEventIDs, tout, ctxDone, tickPending,
                   polled, polledKeys>>
    /\ UNCHANGED <<driftVars, listVars, callVars>>

\* tail.go:86-92: listEvents failed; a warning on stderr unless the context
\* is cancelled; back to the select.
PollFail ==
    /\ tpc = "fetch"
    /\ terr' = IF ctxDone THEN "silent" ELSE "warned"
    /\ tpc' = "select"
    /\ emitted' = 0
    /\ UNCHANGED <<log, since, seenEventIDs, tout, ctxDone, tickPending,
                   polled, polledKeys>>
    /\ UNCHANGED <<driftVars, listVars, callVars>>

\* tail.go:85, 94-135: listEvents returned the whole log; the new events are
\* collected and printed oldest first.
PollOk ==
    /\ tpc = "fetch"
    /\ LET events    == listEvents(log, 0)
           newEvents == CollectNew(events, since, seenEventIDs)
           st == EmitNew(newEvents, Len(newEvents),
                         [seen |-> seenEventIDs, since |-> since, out |-> tout])
       IN  /\ since' = st.since
           /\ seenEventIDs' = st.seen
           /\ tout' = st.out
           /\ polledKeys' = {events[i].key : i \in DOMAIN events}
           /\ emitted' = Len(newEvents)
    /\ polled' = TRUE
    /\ terr' = "nil"
    /\ tpc' = "select"
    /\ UNCHANGED <<log, ctxDone, tickPending>>
    /\ UNCHANGED <<driftVars, listVars, callVars>>

TailNext ==
    \/ AppendEvent
    \/ Interrupt
    \/ SeedOk
    \/ SeedFail
    \/ Tick
    \/ SelectCancel
    \/ SelectTick
    \/ PollFail
    \/ PollOk

SpecTail == TailInit /\ [][TailNext]_vars

\* cfn tail started on a stack that already has an event (any stack that
\* exists has one): the seed fetch, when it succeeds, finds a seed event.
TailStartedInit ==
    /\ log \in {<<EventOf(1, hasId, ts)>> : hasId \in BOOLEAN, ts \in Timestamps}
    /\ tpc = "seed"
    /\ since = ZeroTime
    /\ seenEventIDs = {}
    /\ tout = <<>>
    /\ ctxDone = FALSE
    /\ tickPending = FALSE
    /\ terr = "none"
    /\ polled = FALSE
    /\ polledKeys = {}
    /\ emitted = 0
    /\ TailIdleDrift
    /\ TailIdleList
    /\ CallIdle

SpecTailStarted == TailStartedInit /\ [][TailNext]_vars

\* The loop's own steps are taken when they can be: a fetch in flight returns
\* (weak fairness), and a select that keeps finding ctx.Done() ready takes
\* that case at some point (Go picks among ready cases uniformly at random).
SpecTailFair ==
    /\ TailInit
    /\ [][TailNext]_vars
    /\ WF_vars(PollFail \/ PollOk)
    /\ SF_vars(SelectCancel)

(***************************************************************************)
(* cfn drift: src/cmd/resources.go                                         *)
(***************************************************************************)

\* resources.go:152-155: the drift statuses the listing asks for.
DriftStatusFilters == {"MODIFIED", "DELETED"}

\* The reasons a provider gives for a failed detection.
Reasons == {"throttled", "internal"}

\* A StackResourceDrift as the listing returns it under the given filters.
DriftResources(filters) ==
    [id : {"R1", "R2"}, status : filters, diffs : 0..MaxDiffs]

\* A page of the listing: no resource, or one.
DriftPages(filters) == {<<>>} \cup {<<r>> : r \in DriftResources(filters)}

RECURSIVE Flatten(_)
Flatten(pages) ==
    IF pages = <<>> THEN <<>> ELSE Head(pages) \o Flatten(Tail(pages))

\* What the provider may answer to a listing: one page at least, and no
\* logical id twice.
DriftPageLists(filters) ==
    {ps \in UNION {[1..n -> DriftPages(filters)] : n \in 1..MaxPages} :
        \A i, j \in DOMAIN Flatten(ps) :
            i # j => Flatten(ps)[i].id # Flatten(ps)[j].id}

\* The lines runDrift writes to stdout.
DLine(l) == [line |-> l, id |-> "", n |-> 0]
RowLine(d) == [line |-> "row", id |-> d.id, n |-> d.diffs]
DetailLine(d) == [line |-> "detail", id |-> d.id, n |-> d.diffs]

\* resources.go:171-183: the summary table, a row per drifted resource.
RECURSIVE TableRows(_)
TableRows(ds) ==
    IF ds = <<>> THEN <<>> ELSE <<RowLine(Head(ds))>> \o TableRows(Tail(ds))

\* A plausible slip: a detail block for every drifted resource.
RECURSIVE DetailBlocksForAll(_)
DetailBlocksForAll(ds) ==
    IF ds = <<>> THEN <<>>
    ELSE <<DetailLine(Head(ds))>> \o DetailBlocksForAll(Tail(ds))

\* resources.go:186-196: a detail block per resource with property differences.
RECURSIVE DetailBlocks(_)
DetailBlocks(ds) ==
    IF ds = <<>> THEN <<>>
    ELSE (IF Head(ds).diffs = 0 THEN <<>> ELSE <<DetailLine(Head(ds))>>)
         \o DetailBlocks(Tail(ds))

\* resources.go:166-196: what printDriftResults prints once the listing is in.
RenderDrifted(ds) ==
    IF Len(ds) = 0 THEN <<DLine("No drifted resources.")>>
    ELSE <<DLine("table")>> \o TableRows(ds) \o DetailBlocks(ds)

DriftIdleTail ==
    /\ log = <<>> /\ tpc = "idle" /\ since = ZeroTime /\ seenEventIDs = {}
    /\ tout = <<>> /\ ctxDone = FALSE /\ tickPending = FALSE /\ terr = "none"
    /\ polled = FALSE /\ polledKeys = {} /\ emitted = 0

DriftInit ==
    /\ dpc = "start"
    /\ wait \in BOOLEAN
    /\ dout = <<>>
    /\ statusQueries = 0
    /\ detectCalls = 0
    /\ driftFetches = 0
    /\ dfatal = NoFatal
    /\ answers = <<>>
    /\ drifted = <<>>
    /\ pagesLeft = <<>>
    /\ DriftIdleTail
    /\ TailIdleList
    /\ CallIdle

\* resources.go:101-106: DetectStackDrift failed: fatalf.
DetectFail ==
    /\ dpc = "start"
    /\ detectCalls' = detectCalls + 1
    /\ dfatal' = [msg |-> "failed to initiate drift detection", reason |-> "none"]
    /\ dpc' = "fatal"
    /\ UNCHANGED <<wait, dout, statusQueries, driftFetches, answers, drifted,
                   pagesLeft>>
    /\ UNCHANGED <<tailVars, listVars, callVars>>

\* A plausible slip: the poll loop is entered whatever the value of wait.
DetectOkAlwaysPolls ==
    /\ dpc = "start"
    /\ detectCalls' = detectCalls + 1
    /\ dout' = <<DLine("Drift detection started"), DLine("Waiting")>>
    /\ dpc' = "sleep"
    /\ UNCHANGED <<wait, statusQueries, driftFetches, dfatal, answers, drifted,
                   pagesLeft>>
    /\ UNCHANGED <<tailVars, listVars, callVars>>

\* resources.go:101-117: detection started; the id is printed; without --wait
\* the hint is printed and runDrift returns, with it "Waiting" is printed.
DetectOk ==
    /\ dpc = "start"
    /\ detectCalls' = detectCalls + 1
    /\ dout' = IF wait
               THEN <<DLine("Drift detection started"), DLine("Waiting")>>
               ELSE <<DLine("Drift detection started"), DLine("Use --wait")>>
    /\ dpc' = IF wait THEN "sleep" ELSE "done"
    /\ UNCHANGED <<wait, statusQueries, driftFetches, dfatal, answers, drifted,
                   pagesLeft>>
    /\ UNCHANGED <<tailVars, listVars, callVars>>

\* resources.go:119-120: the 3 second sleep that opens every iteration, and
\* the dot.
DriftSleep ==
    /\ dpc = "sleep"
    /\ dout' = Append(dout, DLine("."))
    /\ dpc' = "query"
    /\ UNCHANGED <<wait, statusQueries, detectCalls, driftFetches, dfatal,
                   answers, drifted, pagesLeft>>
    /\ UNCHANGED <<tailVars, listVars, callVars>>

\* A status query failure that only skips the iteration.
StatusErrorContinues ==
    /\ dpc = "query"
    /\ statusQueries' = statusQueries + 1
    /\ answers' = Append(answers, [status |-> "ERROR", reason |-> "none"])
    /\ dpc' = IF Len(answers) < MaxInProgress THEN "sleep" ELSE "fatal"
    /\ UNCHANGED <<wait, dout, detectCalls, driftFetches, dfatal, drifted,
                   pagesLeft>>
    /\ UNCHANGED <<tailVars, listVars, callVars>>

\* resources.go:122-127: the status query failed: fatalf.
StatusError ==
    /\ dpc = "query"
    /\ statusQueries' = statusQueries + 1
    /\ answers' = Append(answers, [status |-> "ERROR", reason |-> "none"])
    /\ dfatal' = [msg |-> "failed to get drift status", reason |-> "none"]
    /\ dpc' = "fatal"
    /\ UNCHANGED <<wait, dout, detectCalls, driftFetches, drifted, pagesLeft>>
    /\ UNCHANGED <<tailVars, listVars, callVars>>

\* A plausible slip: the loop gives up after its second status query.
StatusInProgressCapped ==
    /\ dpc = "query"
    /\ Len(answers) < MaxInProgress
    /\ statusQueries' = statusQueries + 1
    /\ answers' = Append(answers,
                         [status |-> "DETECTION_IN_PROGRESS", reason |-> "none"])
    /\ dpc' = IF statusQueries < 1 THEN "sleep" ELSE "fatal"
    /\ dfatal' = IF statusQueries < 1 THEN dfatal
                 ELSE [msg |-> "timed out", reason |-> "none"]
    /\ UNCHANGED <<wait, dout, detectCalls, driftFetches, drifted, pagesLeft>>
    /\ UNCHANGED <<tailVars, listVars, callVars>>

\* resources.go:129-138: the answer is neither COMPLETE nor FAILED: the
\* switch falls through and the loop goes round.
StatusInProgress ==
    /\ dpc = "query"
    /\ Len(answers) < MaxInProgress
    /\ statusQueries' = statusQueries + 1
    /\ answers' = Append(answers,
                         [status |-> "DETECTION_IN_PROGRESS", reason |-> "none"])
    /\ dpc' = "sleep"
    /\ UNCHANGED <<wait, dout, detectCalls, driftFetches, dfatal, drifted,
                   pagesLeft>>
    /\ UNCHANGED <<tailVars, listVars, callVars>>

\* A FAILED answer that is reported but does not leave the loop.
StatusFailedKeepsPolling ==
    /\ dpc = "query"
    /\ \E r \in Reasons :
          /\ answers' = Append(answers,
                               [status |-> "DETECTION_FAILED", reason |-> r])
          /\ dfatal' = [msg |-> "drift detection failed", reason |-> r]
    /\ statusQueries' = statusQueries + 1
    /\ dpc' = IF Len(answers) < MaxInProgress THEN "sleep" ELSE "fatal"
    /\ UNCHANGED <<wait, dout, detectCalls, driftFetches, drifted, pagesLeft>>
    /\ UNCHANGED <<tailVars, listVars, callVars>>

\* resources.go:134-136: the answer is FAILED: fatalf with the provider's
\* reason.
StatusFailed ==
    /\ dpc = "query"
    /\ \E r \in Reasons :
          /\ answers' = Append(answers,
                               [status |-> "DETECTION_FAILED", reason |-> r])
          /\ dfatal' = [msg |-> "drift detection failed", reason |-> r]
    /\ statusQueries' = statusQueries + 1
    /\ dpc' = "fatal"
    /\ UNCHANGED <<wait, dout, detectCalls, driftFetches, drifted, pagesLeft>>
    /\ UNCHANGED <<tailVars, listVars, callVars>>

\* resources.go:130-132, 143-156: the answer is COMPLETE: printDriftResults
\* prints the status header and begins the listing of the drifted resources.
StatusComplete ==
    /\ dpc = "query"
    /\ statusQueries' = statusQueries + 1
    /\ answers' = Append(answers,
                         [status |-> "DETECTION_COMPLETE", reason |-> "none"])
    /\ dout' = Append(dout, DLine("Stack drift status"))
    /\ driftFetches' = driftFetches + 1
    /\ pagesLeft' \in DriftPageLists(DriftStatusFilters)
    /\ drifted' = <<>>
    /\ dpc' = "drifts"
    /\ UNCHANGED <<wait, detectCalls, dfatal>>
    /\ UNCHANGED <<tailVars, listVars, callVars>>

\* resources.go:158-162: a page of the listing failed: fatalf.
DriftPageFail ==
    /\ dpc = "drifts"
    /\ dfatal' = [msg |-> "failed to list drifted resources", reason |-> "none"]
    /\ dpc' = "fatal"
    /\ UNCHANGED <<wait, dout, statusQueries, detectCalls, driftFetches,
                   answers, drifted, pagesLeft>>
    /\ UNCHANGED <<tailVars, listVars, callVars>>

\* resources.go:158-196: a page arrived; after the last one the result is
\* rendered and runDrift returns.
DriftPageOk ==
    /\ dpc = "drifts"
    /\ drifted' = drifted \o Head(pagesLeft)
    /\ pagesLeft' = Tail(pagesLeft)
    /\ IF Tail(pagesLeft) = <<>>
       THEN /\ dout' = dout \o RenderDrifted(drifted')
            /\ dpc' = "done"
       ELSE /\ dout' = dout
            /\ dpc' = "drifts"
    /\ UNCHANGED <<wait, statusQueries, detectCalls, driftFetches, dfatal,
                   answers>>
    /\ UNCHANGED <<tailVars, listVars, callVars>>

DriftNext ==
    \/ DetectFail
    \/ DetectOk
    \/ DriftSleep
    \/ StatusError
    \/ StatusInProgress
    \/ StatusFailed
    \/ StatusComplete
    \/ DriftPageFail
    \/ DriftPageOk

SpecDrift == DriftInit /\ [][DriftNext]_vars

\* runDrift is one sequential goroutine: the sleep ends and every API call
\* returns, so a step that can be taken is taken (weak fairness). The provider
\* answers IN_PROGRESS at most MaxInProgress times: it eventually answers
\* COMPLETE or FAILED, or the query fails.
SpecDriftFair ==
    /\ DriftInit
    /\ [][DriftNext]_vars
    /\ WF_vars(DriftNext)

(***************************************************************************)
(* Text. A string is a sequence of one-character strings, so that the      *)
(* splitting, substring and case operations of the code can be computed.   *)
(***************************************************************************)

\* unicode.ToLower on the letters the model's strings are written with.
Lower(c) ==
    CASE c = "A" -> "a"
      [] c = "B" -> "b"
      [] c = "E" -> "e"
      [] c = "F" -> "f"
      [] c = "N" -> "n"
      [] c = "S" -> "s"
      [] c = "T" -> "t"
      [] c = "V" -> "v"
      [] c = "X" -> "x"
      [] c = "Y" -> "y"
      [] OTHER -> c

\* strings.ToLower
ToLower(str) == [i \in 1..Len(str) |-> Lower(str[i])]

\* strings.EqualFold
EqualFold(a, b) == ToLower(a) = ToLower(b)

\* strings.Contains
Contains(str, sub) ==
    \E i \in 0..(Len(str) - Len(sub)) : SubSeq(str, i + 1, i + Len(sub)) = sub

\* strings.Index for a one-character separator: 0 when it does not occur.
IndexOf(str, sep) ==
    IF \E i \in DOMAIN str : str[i] = sep
    THEN CHOOSE i \in DOMAIN str :
            str[i] = sep /\ \A j \in 1..(i - 1) : str[j] # sep
    ELSE 0

\* strings.SplitN(str, sep, 2): at most two parts, cut at the first sep.
SplitN2(str, sep) ==
    LET i == IndexOf(str, sep)
    IN  IF i = 0 THEN <<str>>
        ELSE <<SubSeq(str, 1, i - 1), SubSeq(str, i + 1, Len(str))>>

\* strings.Split(str, sep): cut at every sep.
RECURSIVE Split(_, _)
Split(str, sep) ==
    LET i == IndexOf(str, sep)
    IN  IF i = 0 THEN <<str>>
        ELSE <<SubSeq(str, 1, i - 1)>> \o Split(SubSeq(str, i + 1, Len(str)), sep)

\* The case rule of the resource search (its helpers are not in the files at
\* hand): equality up to case when ignoreCase is set, exact equality otherwise.
equalsWithCase(a, b, ic) == IF ic THEN EqualFold(a, b) ELSE a = b

\* The same rule for the substring test.
containsWithCase(str, sub, ic) ==
    IF ic THEN Contains(ToLower(str), ToLower(sub)) ELSE Contains(str, sub)

(***************************************************************************)
(* cfn list: src/cmd/list.go                                               *)
(***************************************************************************)

\* A map with no key.
EmptyMap == <<>>

\* The values json.Unmarshal / yaml.Unmarshal produce (interface{}): a string,
\* a number, a mapping, or nil.
StrV(str) == [kind |-> "str", str |-> str, num |-> 0, map |-> EmptyMap]
NumV(n)   == [kind |-> "num", str |-> <<>>, num |-> n, map |-> EmptyMap]
MapV(m)   == [kind |-> "map", str |-> <<>>, num |-> 0, map |-> m]
NilV      == [kind |-> "nil", str |-> <<>>, num |-> 0, map |-> EmptyMap]

\* strconv of a small non-negative integer.
Digits == <<"0", "1", "2", "3", "4", "5", "6", "7", "8", "9">>
RECURSIVE Itoa(_)
Itoa(n) == IF n < 10 THEN <<Digits[n + 1]>>
           ELSE Itoa(n \div 10) \o <<Digits[(n % 10) + 1]>>

\* The byte order of the characters the model's strings are written with.
Alphabet ==
    <<".", "0", "1", "2", "3", "4", "5", "6", "7", "8", "9", ":", "<", "=",
      ">", "A", "B", "E", "F", "N", "S", "T", "V", "X", "Y", "[", "]", "a",
      "b", "d", "e", "f", "g", "i", "l", "m", "n", "o", "p", "r", "s", "t",
      "u", "v", "x", "y">>
Rank(c) == CHOOSE i \in DOMAIN Alphabet : Alphabet[i] = c

\* a < b as Go compares strings.
RECURSIVE StrLess(_, _)
StrLess(a, b) ==
    IF b = <<>> THEN FALSE
    ELSE IF a = <<>> THEN TRUE
    ELSE IF Head(a) # Head(b) THEN Rank(Head(a)) < Rank(Head(b))
    ELSE StrLess(Tail(a), Tail(b))

\* The keys of a map in increasing order, as fmt prints them.
RECURSIVE SortedKeys(_)
SortedKeys(keys) ==
    IF keys = {} THEN <<>>
    ELSE LET k == CHOOSE k \in keys : \A o \in keys \ {k} : StrLess(k, o)
         IN  <<k>> \o SortedKeys(keys \ {k})

\* fmt.Sprintf("%v", value): a string as it is, a number in decimal, nil as
\* <nil>, a mapping as map[k1:v1 k2:v2] (SprintEntries writes the entries, a
\* space between two).
RECURSIVE Sprint(_)
RECURSIVE SprintEntries(_, _)
SprintEntries(m, keys) ==
    IF keys = <<>> THEN <<>>
    ELSE Head(keys) \o <<":">> \o Sprint(m[Head(keys)])
         \o (IF Len(keys) > 1 THEN <<" ">> ELSE <<>>)
         \o SprintEntries(m, Tail(keys))
Sprint(v) ==
    CASE v.kind = "str" -> v.str
      [] v.kind = "num" -> Itoa(v.num)
      [] v.kind = "map" -> <<"m", "a", "p", "[">>
                           \o SprintEntries(v.map, SortedKeys(DOMAIN v.map))
                           \o <<"]">>
      [] OTHER          -> <<"<", "n", "i", "l", ">">>

\* A plausible slip: a value that is not a mapping is returned as the result
\* of the lookup although path segments are left.
RECURSIVE getNestedPropertyWalkLenient(_, _, _)
getNestedPropertyWalkLenient(current, parts, ic) ==
    IF parts = <<>> THEN {current}
    ELSE IF current.kind # "map" THEN {current}
    ELSE IF ic
         THEN LET ks == {k \in DOMAIN current.map : EqualFold(k, Head(parts))}
              IN  IF ks = {} THEN {NilV}
                  ELSE UNION {getNestedPropertyWalkLenient(current.map[k],
                                                           Tail(parts), ic)
                                : k \in ks}
         ELSE IF Head(parts) \in DOMAIN current.map
              THEN getNestedPropertyWalkLenient(current.map[Head(parts)],
                                                Tail(parts), ic)
              ELSE {NilV}

\* list.go:311-340: the walk of getNestedProperty from `current` along the
\* remaining path segments. With ignoreCase the first key of the map that is
\* equal up to case is taken, in Go's map iteration order, which is not
\* fixed: the result is any of the values the walk may return.
RECURSIVE getNestedPropertyWalk(_, _, _)
getNestedPropertyWalk(current, parts, ic) ==
    IF parts = <<>> THEN {current}
    ELSE IF current.kind # "map" THEN {NilV}
    ELSE IF ic
         THEN LET ks == {k \in DOMAIN current.map : EqualFold(k, Head(parts))}
              IN  IF ks = {} THEN {NilV}
                  ELSE UNION {getNestedPropertyWalk(current.map[k], Tail(parts), ic)
                                : k \in ks}
         ELSE IF Head(parts) \in DOMAIN current.map
              THEN getNestedPropertyWalk(current.map[Head(parts)], Tail(parts), ic)
              ELSE {NilV}

\* list.go:307-341: getNestedProperty; the values it may return.
getNestedProperty(props, path, ic) ==
    getNestedPropertyWalk(MapV(props), Split(path, "."), ic)

\* list.go:290-299: one filter of checkProperties against one looked-up value.
FilterHolds(value, expectedValue, ic) ==
    /\ value # NilV
    /\ equalsWithCase(Sprint(value), expectedValue, ic)

\* Some enumeration of a finite set.
RECURSIVE SetToSeq(_)
SetToSeq(S) ==
    IF S = {} THEN <<>>
    ELSE LET x == CHOOSE x \in S : TRUE IN <<x>> \o SetToSeq(S \ {x})

\* A plausible slip: a property filter is met as soon as one filter is.
RECURSIVE checkPropertiesAnyFilter(_, _, _, _)
checkPropertiesAnyFilter(props, filters, keys, ic) ==
    IF keys = <<>> THEN {FALSE}
    ELSE LET holds == {FilterHolds(v, filters[Head(keys)], ic) :
                          v \in getNestedProperty(props, Head(keys), ic)}
         IN  (IF TRUE \in holds THEN {TRUE} ELSE {})
             \cup (IF FALSE \in holds
                   THEN checkPropertiesAnyFilter(props, filters, Tail(keys), ic)
                   ELSE {})

\* list.go:285-305: checkProperties over the filters still to check: false at
\* the first filter that does not hold, true when none is left. The results
\* it may give (more than one only through getNestedProperty).
RECURSIVE checkProperties(_, _, _, _)
checkProperties(props, filters, keys, ic) ==
    IF keys = <<>> THEN {TRUE}
    ELSE LET holds == {FilterHolds(v, filters[Head(keys)], ic) :
                          v \in getNestedProperty(props, Head(keys), ic)}
         IN  (IF FALSE \in holds THEN {FALSE} ELSE {})
             \cup (IF TRUE \in holds
                   THEN checkProperties(props, filters, Tail(keys), ic)
                   ELSE {})

\* An entry of the Resources mapping: a resource definition (a mapping, with
\* or without a string Type, with or without a Properties mapping) or a value
\* of another shape.
ResourceV(hasType, type, hasProps, props) ==
    [isMap |-> TRUE, hasType |-> hasType, Type |-> type,
     hasProps |-> hasProps, Properties |-> props]
NotAMapping ==
    [isMap |-> FALSE, hasType |-> FALSE, Type |-> <<>>,
     hasProps |-> FALSE, Properties |-> EmptyMap]

\* list.go:247-279: the body of the search loop for one entry of Resources:
\* whether it reaches "return true". The results it may give.
matchResource(logicalID, resourceData, resType, resName, filters, ic) ==
    IF resName # <<>> /\ ~containsWithCase(logicalID, resName, ic) THEN {FALSE}
    ELSE IF ~resourceData.isMap THEN {FALSE}
    ELSE IF resType # <<>>
            /\ (~resourceData.hasType
                \/ ~equalsWithCase(resourceData.Type, resType, ic))
         THEN {FALSE}
    ELSE IF DOMAIN filters # {}
         THEN IF ~resourceData.hasProps THEN {FALSE}
              ELSE checkProperties(resourceData.Properties, filters,
                                   SetToSeq(DOMAIN filters), ic)
    ELSE {TRUE}

\* list.go:246-282: the search loop over the entries of Resources in the
\* order the map iteration yields them: true at the first match, false when
\* none is left.
RECURSIVE searchResources(_, _, _, _, _, _)
searchResources(resources, order, resType, resName, filters, ic) ==
    IF order = <<>> THEN {FALSE}
    ELSE LET m == matchResource(Head(order), resources[Head(order)],
                                resType, resName, filters, ic)
         IN  (IF TRUE \in m THEN {TRUE} ELSE {})
             \cup (IF FALSE \in m
                   THEN searchResources(resources, Tail(order),
                                        resType, resName, filters, ic)
                   ELSE {})

\* The orders in which Go may iterate over a map with these keys.
Orders(keys) ==
    {o \in [1..Cardinality(keys) -> keys] :
        \A i, j \in DOMAIN o : i # j => o[i] # o[j]}

\* What GetTemplate answers and what the two parsers make of it: the call
\* fails, the body is empty, the body is neither JSON nor YAML, or it parses
\* (json.Unmarshal for a JSON body, else yaml.Unmarshal) into a document with
\* or without a Resources mapping.
TemplateOf(fetch, format, hasResources, resources) ==
    [fetch |-> fetch, format |-> format, hasResources |-> hasResources,
     Resources |-> resources]

\* list.go:216-283: searchStackTemplate: the results (hasMatch, err) it may
\* return for a stack with this template.
searchStackTemplate(tpl, resType, resName, filters, ic) ==
    IF tpl.fetch # "ok" THEN {[hasMatch |-> FALSE, err |-> "GetTemplate"]}
    ELSE IF tpl.format = "empty"
         THEN {[hasMatch |-> FALSE, err |-> "empty template"]}
    ELSE IF tpl.format \notin {"json", "yaml"}
         THEN {[hasMatch |-> FALSE, err |-> "failed to parse template"]}
    ELSE IF ~tpl.hasResources THEN {[hasMatch |-> FALSE, err |-> "nil"]}
    ELSE {[hasMatch |-> b, err |-> "nil"] :
             b \in UNION {searchResources(tpl.Resources, o, resType, resName,
                                          filters, ic)
                            : o \in Orders(DOMAIN tpl.Resources)}}

\* The text of the model's flag values and template keys.
T1 == <<"T", "1">>
T2 == <<"T", "2">>
KX == <<"X">>
KY == <<"Y">>

\* Templates. TplAB: resources A (type T1, X = "1") and B (type T2,
\* X = {Y: "2"}). TplMixed: resource AB (type t1, X = 2 as a number and
\* x = "1", two keys equal up to case), an entry F that is not a mapping, and
\* a resource N (type T1) without Properties. TplNoResources: a document
\* without a Resources mapping. Then the three ways a template is not had.
TplAB ==
    TemplateOf("ok", "json", TRUE,
        (<<"A">> :> ResourceV(TRUE, T1, TRUE, (KX :> StrV(<<"1">>))))
        @@ (<<"B">> :> ResourceV(TRUE, T2, TRUE,
                                 (KX :> MapV(KY :> StrV(<<"2">>))))))
TplMixed ==
    TemplateOf("ok", "yaml", TRUE,
        (<<"A", "B">> :> ResourceV(TRUE, <<"t", "1">>, TRUE,
                                   (KX :> NumV(2)) @@ (<<"x">> :> StrV(<<"1">>))))
        @@ (<<"F">> :> NotAMapping)
        @@ (<<"N">> :> ResourceV(TRUE, T1, FALSE, EmptyMap)))
TplNoResources == TemplateOf("ok", "json", FALSE, EmptyMap)
TplFetchError  == TemplateOf("error", "none", FALSE, EmptyMap)
TplEmpty       == TemplateOf("ok", "empty", FALSE, EmptyMap)
TplGarbage     == TemplateOf("ok", "garbage", FALSE, EmptyMap)
Templates ==
    {TplAB, TplMixed, TplNoResources, TplFetchError, TplEmpty, TplGarbage}

\* A stack summary of the listing: with or without a StackName, and the
\* template GetTemplate has for it.
StackKinds ==
    [named : {TRUE}, template : Templates]
    \cup [named : {FALSE}, template : {TplAB}]

\* The candidate lists the listing may return: up to MaxStacks summaries, the
\* i-th one carrying id i.
Providers ==
    UNION {{[i \in 1..n |-> [id |-> i, named |-> ks[i].named,
                             template |-> ks[i].template]]
             : ks \in [1..n -> StackKinds]}
           : n \in 0..MaxStacks}

\* The values of --type, --resource and --property the model runs with.
TypeFilters == {<<>>, T1, <<"t", "1">>, T2}
NameFilters == {<<>>, <<"B">>, <<"a">>}
PropertyArgs ==
    {<<>>,
     <<<<"X", "=", "1">>>>,
     <<<<"X", "=", "2">>>>,
     <<<<"x", "=", "1">>>>,
     <<<<"X", ".", "Y", "=", "2">>>>,
     <<<<"X">>>>,
     <<<<"X", "=", "1">>, <<"X", "=", "2">>>>,
     <<<<"X", "=", "1">>, <<"X", ".", "Y", "=", "2">>>>,
     <<<<"X", "=", "2">>, <<"Y">>>>,
     <<<<"X", "=", "1", "=", "2">>>>}

\* A plausible slip: a key given twice keeps the value it got first.
RECURSIVE parsePropertiesFirstWins(_, _)
parsePropertiesFirstWins(props, acc) ==
    IF props = <<>> THEN [ok |-> TRUE, filters |-> acc]
    ELSE LET parts == SplitN2(Head(props), "=")
         IN  IF Len(parts) # 2 THEN [ok |-> FALSE, filters |-> EmptyMap]
             ELSE parsePropertiesFirstWins(Tail(props),
                    [k \in DOMAIN acc \cup {parts[1]} |->
                        IF k \in DOMAIN acc THEN acc[k] ELSE parts[2]])

\* list.go:124-131: the loop over --property values: the filters built, or
\* not ok at the first value without "=". A key given twice keeps the later
\* value.
RECURSIVE parseProperties(_, _)
parseProperties(props, acc) ==
    IF props = <<>> THEN [ok |-> TRUE, filters |-> acc]
    ELSE LET parts == SplitN2(Head(props), "=")
         IN  IF Len(parts) # 2 THEN [ok |-> FALSE, filters |-> EmptyMap]
             ELSE parseProperties(Tail(props),
                    [k \in DOMAIN acc \cup {parts[1]} |->
                        IF k = parts[1] THEN parts[2] ELSE acc[k]])

\* list.go:86
isResourceSearch ==
    resourceType # <<>> \/ resourceName # <<>> \/ Len(properties) > 0

\* The ids of the summaries a listing prints: printStacks prints every row,
\* --names-only only the stacks that have a name.
Printed(list, names) ==
    LET shown == SelectSeq(list, LAMBDA st : ~names \/ st.named)
    IN  [i \in 1..Len(shown) |-> shown[i].id]

\* The other commands do not run while cfn list does.
ListIdleOthers == DriftIdleTail /\ TailIdleDrift

\* cfn list starts: the flags are parsed, nothing is fetched yet.
ListInit ==
    /\ lpc = "start"
    /\ resourceType \in TypeFilters
    /\ resourceName \in NameFilters
    /\ properties \in PropertyArgs
    /\ ignoreCase \in BOOLEAN
    /\ namesOnly \in BOOLEAN
    /\ provider \in Providers
    /\ stacks = <<>> /\ propertyFilters = EmptyMap /\ idx = 0
    /\ searched = <<>> /\ matching = <<>>
    /\ listCalls = 0 /\ templateFetches = 0
    /\ lfatal = "none" /\ lout = <<>>
    /\ ListIdleOthers
    /\ CallIdle

\* list.go:95-98: the listing fails.
ListStacksFail ==
    /\ lpc = "start"
    /\ listCalls' = listCalls + 1
    /\ lfatal' = "failed to list stacks"
    /\ lpc' = "exit"
    /\ UNCHANGED <<resourceType, resourceName, properties, ignoreCase,
                   namesOnly, provider, stacks, propertyFilters, idx, searched,
                   matching, templateFetches, lout>>
    /\ UNCHANGED <<tailVars, driftVars, callVars>>

\* list.go:95-120: the listing succeeds; without a resource filter runList
\* prints it (or exits with "No stacks found"), with one it goes on to
\* runResourceSearch.
ListStacksOk ==
    /\ lpc = "start"
    /\ listCalls' = listCalls + 1
    /\ stacks' = provider
    /\ IF isResourceSearch
       THEN lpc' = "search" /\ lfatal' = lfatal /\ lout' = lout
       ELSE IF ~namesOnly /\ Len(provider) = 0
            THEN lpc' = "exit" /\ lfatal' = "No stacks found" /\ lout' = lout
            ELSE /\ lpc' = "done" /\ lfatal' = lfatal
                 /\ lout' = Printed(provider, namesOnly)
    /\ UNCHANGED <<resourceType, resourceName, properties, ignoreCase,
                   namesOnly, provider, propertyFilters, idx, searched,
                   matching, templateFetches>>
    /\ UNCHANGED <<tailVars, driftVars, callVars>>

\* list.go:122-136: runResourceSearch up to its loop: a --property value
\* without "=" is fatal, an empty listing exits with "No stacks to search".
ParseProperties ==
    /\ lpc = "search"
    /\ LET parsed == parseProperties(properties, EmptyMap)
       IN  IF ~parsed.ok
           THEN /\ lpc' = "exit" /\ lfatal' = "invalid property format"
                /\ UNCHANGED <<propertyFilters, idx>>
           ELSE /\ propertyFilters' = parsed.filters
                /\ IF Len(stacks) = 0
                   THEN /\ lpc' = "exit" /\ lfatal' = "No stacks to search"
                        /\ idx' = idx
                   ELSE /\ lpc' = "loop" /\ lfatal' = lfatal /\ idx' = 1
    /\ UNCHANGED <<resourceType, resourceName, properties, ignoreCase,
                   namesOnly, provider, stacks, searched, matching, listCalls,
                   templateFetches, lout>>
    /\ UNCHANGED <<tailVars, driftVars, callVars>>

\* What one pass of the loop found for a candidate.
Skipped == [hasMatch |-> FALSE, err |-> "no name"]

\* A plausible slip: a candidate whose template cannot be had ends the search.
SearchCandidateAbortsOnError ==
    /\ lpc = "loop" /\ idx <= Len(stacks)
    /\ stacks[idx].named
    /\ \E r \in searchStackTemplate(stacks[idx].template, resourceType,
                                    resourceName, propertyFilters, ignoreCase) :
          /\ searched' = Append(searched, r)
          /\ matching' = IF r.hasMatch THEN Append(matching, stacks[idx])
                         ELSE matching
          /\ IF r.err # "nil"
             THEN lpc' = "exit" /\ lfatal' = r.err
             ELSE lpc' = lpc /\ lfatal' = lfatal
    /\ templateFetches' = templateFetches + 1
    /\ idx' = idx + 1
    /\ UNCHANGED <<resourceType, resourceName, properties, ignoreCase,
                   namesOnly, provider, stacks, propertyFilters, listCalls,
                   lout>>
    /\ UNCHANGED <<tailVars, driftVars, callVars>>

\* list.go:162-165: a candidate without a name is passed over.
SkipUnnamed ==
    /\ lpc = "loop" /\ idx <= Len(stacks)
    /\ ~stacks[idx].named
    /\ searched' = Append(searched, Skipped)
    /\ idx' = idx + 1
    /\ UNCHANGED <<lpc, resourceType, resourceName, properties, ignoreCase,
                   namesOnly, provider, stacks, propertyFilters, matching,
                   listCalls, templateFetches, lfatal, lout>>
    /\ UNCHANGED <<tailVars, driftVars, callVars>>

\* list.go:167-175: one candidate is searched: GetTemplate is called, an
\* error passes the candidate over, a match appends it to the result.
SearchCandidate ==
    /\ lpc = "loop" /\ idx <= Len(stacks)
    /\ stacks[idx].named
    /\ \E r \in searchStackTemplate(stacks[idx].template, resourceType,
                                    resourceName, propertyFilters, ignoreCase) :
          /\ searched' = Append(searched, r)
          /\ matching' = IF r.err = "nil" /\ r.hasMatch
                         THEN Append(matching, stacks[idx])
                         ELSE matching
    /\ templateFetches' = templateFetches + 1
    /\ idx' = idx + 1
    /\ UNCHANGED <<lpc, resourceType, resourceName, properties, ignoreCase,
                   namesOnly, provider, stacks, propertyFilters, listCalls,
                   lfatal, lout>>
    /\ UNCHANGED <<tailVars, driftVars, callVars>>

\* list.go:183-213: after the loop: no match exits with status 1, else the
\* matching stacks are printed.
SearchDone ==
    /\ lpc = "loop" /\ idx > Len(stacks)
    /\ IF Len(matching) = 0
       THEN lpc' = "exit" /\ lfatal' = "No stacks found containing"
            /\ lout' = lout
       ELSE lpc' = "done" /\ lfatal' = lfatal
            /\ lout' = Printed(matching, namesOnly)
    /\ UNCHANGED <<resourceType, resourceName, properties, ignoreCase,
                   namesOnly, provider, stacks, propertyFilters, idx, searched,
                   matching, listCalls, templateFetches>>
    /\ UNCHANGED <<tailVars, driftVars, callVars>>

ListNext ==
    \/ ListStacksFail
    \/ ListStacksOk
    \/ ParseProperties
    \/ SkipUnnamed
    \/ SearchCandidate
    \/ SearchDone

SpecList == ListInit /\ [][ListNext]_vars

(***************************************************************************)
(* One property filter: checkProperties and getNestedProperty, list.go     *)
(***************************************************************************)

\* No command runs while a helper function is called on its own.
OnlyCall == DriftIdleTail /\ TailIdleDrift /\ TailIdleList

\* The text of the keys and values of the lookup.
Versioning == <<"V", "e", "r", "s", "i", "o", "n", "i", "n", "g">>
Status     == <<"S", "t", "a", "t", "u", "s">>
Enabled    == <<"E", "n", "a", "b", "l", "e", "d">>
NilText    == <<"<", "n", "i", "l", ">">>

\* The Properties mappings the lookup is run on: the nested and the flat
\* Versioning, a mapping with two keys equal up to case, a number, the empty
\* mapping and a nesting of depth three.
LookupProperties ==
    {(Versioning :> MapV(Status :> StrV(Enabled))),
     (Versioning :> StrV(Enabled)),
     (KX :> MapV(KY :> StrV(<<"2">>))) @@ (<<"x">> :> StrV(<<"1">>)),
     (KX :> NumV(2)),
     EmptyMap,
     (KX :> MapV(KY :> MapV(KX :> StrV(<<"1">>))))}

\* The paths looked up.
LookupPaths ==
    {Versioning \o <<".">> \o Status,
     Versioning,
     ToLower(Versioning \o <<".">> \o Status),
     Status,
     <<"X", ".", "Y">>,
     <<"X">>,
     <<"x", ".", "y">>,
     <<"X", ".", "Y", ".", "X">>,
     <<"X", ".">>,
     <<>>}

\* The expected values of the filter.
LookupExpected == {Enabled, <<"1">>, <<"2">>, NilText}

\* checkProperties is about to check one filter.
LookupInit ==
    /\ cpc = "call"
    /\ cargs \in [properties : LookupProperties, path : LookupPaths,
                  expectedValue : LookupExpected, ignoreCase : BOOLEAN]
    /\ cret = <<>>
    /\ OnlyCall

\* list.go:289-299: one pass of the loop of checkProperties: the value
\* getNestedProperty returns for the path, and whether the filter holds.
CheckFilter ==
    /\ cpc = "call"
    /\ \E value \in getNestedProperty(cargs.properties, cargs.path,
                                      cargs.ignoreCase) :
          cret' = [value |-> value,
                   holds |-> FilterHolds(value, cargs.expectedValue,
                                         cargs.ignoreCase)]
    /\ cpc' = "returned"
    /\ UNCHANGED <<cargs, tailVars, driftVars, listVars>>

LookupNext == CheckFilter

SpecLookup == LookupInit /\ [][LookupNext]_vars

(***************************************************************************)
(* The status filter of cfn list: buildStatusFilters (helpers of package   *)
(* cmd) and its use in runList, list.go:86-93                               *)
(***************************************************************************)

\* A []types.StackStatus: nil, or a slice with its elements in order.
NilStatuses == [isNil |-> TRUE, list |-> <<>>]
StatusSlice(list) == [isNil |-> FALSE, list |-> list]

\* A plausible slip: the default view without the in-progress statuses.
DefaultStatusesCompleteOnly ==
    <<"CREATE_COMPLETE", "UPDATE_COMPLETE", "ROLLBACK_COMPLETE",
      "UPDATE_ROLLBACK_COMPLETE", "IMPORT_COMPLETE", "IMPORT_ROLLBACK_COMPLETE">>

\* The slice literal of the default view (no flag given).
DefaultStatuses ==
    <<"CREATE_COMPLETE", "UPDATE_COMPLETE", "ROLLBACK_COMPLETE",
      "UPDATE_ROLLBACK_COMPLETE", "IMPORT_COMPLETE", "IMPORT_ROLLBACK_COMPLETE",
      "CREATE_IN_PROGRESS", "DELETE_IN_PROGRESS", "ROLLBACK_IN_PROGRESS",
      "UPDATE_IN_PROGRESS", "UPDATE_COMPLETE_CLEANUP_IN_PROGRESS",
      "UPDATE_ROLLBACK_IN_PROGRESS",
      "UPDATE_ROLLBACK_COMPLETE_CLEANUP_IN_PROGRESS", "REVIEW_IN_PROGRESS",
      "IMPORT_IN_PROGRESS", "IMPORT_ROLLBACK_IN_PROGRESS">>

\* What --complete appends.
CompleteStatuses ==
    <<"CREATE_COMPLETE", "DELETE_COMPLETE", "ROLLBACK_COMPLETE",
      "UPDATE_COMPLETE", "UPDATE_ROLLBACK_COMPLETE", "IMPORT_COMPLETE",
      "IMPORT_ROLLBACK_COMPLETE">>

\* What --deleted appends.
DeletedStatuses == <<"DELETE_IN_PROGRESS", "DELETE_FAILED", "DELETE_COMPLETE">>

\* What --in-progress appends.
InProgressStatuses ==
    <<"CREATE_IN_PROGRESS", "DELETE_IN_PROGRESS", "ROLLBACK_IN_PROGRESS",
      "UPDATE_IN_PROGRESS", "UPDATE_COMPLETE_CLEANUP_IN_PROGRESS",
      "UPDATE_ROLLBACK_IN_PROGRESS",
      "UPDATE_ROLLBACK_COMPLETE_CLEANUP_IN_PROGRESS", "REVIEW_IN_PROGRESS",
      "IMPORT_IN_PROGRESS", "IMPORT_ROLLBACK_IN_PROGRESS">>

\* A plausible slip: --all is looked at after the other flags.
buildStatusFiltersAllLast(all, complete, deleted, inProgress) ==
    IF ~complete /\ ~deleted /\ ~inProgress
    THEN IF all THEN NilStatuses ELSE StatusSlice(DefaultStatuses)
    ELSE StatusSlice((IF complete THEN CompleteStatuses ELSE <<>>)
                     \o (IF deleted THEN DeletedStatuses ELSE <<>>)
                     \o (IF inProgress THEN InProgressStatuses ELSE <<>>))

\* A plausible slip: --deleted is ignored when --complete is given.
buildStatusFiltersExclusive(all, complete, deleted, inProgress) ==
    IF all THEN NilStatuses
    ELSE IF ~complete /\ ~deleted /\ ~inProgress
         THEN StatusSlice(DefaultStatuses)
    ELSE StatusSlice((IF complete THEN CompleteStatuses ELSE <<>>)
                     \o (IF deleted /\ ~complete THEN DeletedStatuses ELSE <<>>)
                     \o (IF inProgress THEN InProgressStatuses ELSE <<>>))

\* buildStatusFilters: nil for --all, the default view without a flag, else
\* what the given flags append, in the order complete, deleted, inProgress.
buildStatusFilters(all, complete, deleted, inProgress) ==
    IF all THEN NilStatuses
    ELSE IF ~complete /\ ~deleted /\ ~inProgress
         THEN StatusSlice(DefaultStatuses)
    ELSE StatusSlice((IF complete THEN CompleteStatuses ELSE <<>>)
                     \o (IF deleted THEN DeletedStatuses ELSE <<>>)
                     \o (IF inProgress THEN InProgressStatuses ELSE <<>>))

\* runList is about to build its status filter: the four status flags and
\* the resource flags are parsed.
FiltersInit ==
    /\ cpc = "call"
    /\ cargs \in [filterAll : BOOLEAN, filterComplete : BOOLEAN,
                  filterDeleted : BOOLEAN, filterInProgress : BOOLEAN]
    /\ cret = <<>>
    /\ resourceType \in {<<>>, T1}
    /\ resourceName \in {<<>>, <<"B">>}
    /\ properties \in {<<>>, <<<<"X", "=", "1">>>>}
    /\ lpc = "idle" /\ ignoreCase = FALSE /\ provider = <<>>
    /\ stacks = <<>> /\ propertyFilters = <<>> /\ idx = 0 /\ searched = <<>>
    /\ matching = <<>> /\ listCalls = 0 /\ templateFetches = 0
    /\ lfatal = "none" /\ namesOnly = FALSE /\ lout = <<>>
    /\ DriftIdleTail /\ TailIdleDrift

\* A plausible slip: a resource search drops the status filter whatever the
\* status flags are.
BuildFiltersSearchIgnoresFlags ==
    /\ cpc = "call"
    /\ LET built == buildStatusFilters(cargs.filterAll, cargs.filterComplete,
                                       cargs.filterDeleted,
                                       cargs.filterInProgress)
       IN  cret' = [built |-> built,
                    statusFilters |->
                        IF isResourceSearch THEN NilStatuses ELSE built]
    /\ cpc' = "returned"
    /\ UNCHANGED <<cargs, tailVars, driftVars, listVars>>

\* list.go:86-93: buildStatusFilters is called with the four flags; a
\* resource search without any status flag then drops the filter.
BuildFilters ==
    /\ cpc = "call"
    /\ LET built == buildStatusFilters(cargs.filterAll, cargs.filterComplete,
                                       cargs.filterDeleted,
                                       cargs.filterInProgress)
       IN  cret' = [built |-> built,
                    statusFilters |->
                        IF /\ isResourceSearch
                           /\ ~cargs.filterAll /\ ~cargs.filterComplete
                           /\ ~cargs.filterDeleted /\ ~cargs.filterInProgress
                        THEN NilStatuses ELSE built]
    /\ cpc' = "returned"
    /\ UNCHANGED <<cargs, tailVars, driftVars, listVars>>

FiltersNext == BuildFilters

SpecFilters == FiltersInit /\ [][FiltersNext]_vars

(***************************************************************************)
(* The stack filter: listStacks (helpers of package cmd)                   *)
(***************************************************************************)

\* A StackSummary of a ListStacks page: id is its place in the provider's
\* listing; StackName and TemplateDescription may be nil.
Summary(id, hasName, name, hasDesc, desc) ==
    [id |-> id, hasName |-> hasName, StackName |-> name,
     hasDesc |-> hasDesc, TemplateDescription |-> desc]

\* getValue of an optional string: "" for nil.
getValue(has, str) == IF has THEN str ELSE <<>>

\* The names and descriptions the provider's stacks carry (has, text).
SummaryNames ==
    {<<FALSE, <<>>>>, <<TRUE, <<"a">>>>, <<TRUE, <<"A", "B">>>>,
     <<TRUE, <<"B">>>>}
SummaryDescriptions ==
    {<<FALSE, <<>>>>, <<TRUE, <<"x", "y">>>>, <<TRUE, <<"X">>>>}

\* The listings the provider may hold: up to MaxStacks summaries.
Listings ==
    UNION {{[i \in 1..n |-> Summary(i, ns[i][1], ns[i][2], ds[i][1], ds[i][2])]
             : ns \in [1..n -> SummaryNames], ds \in [1..n -> SummaryDescriptions]}
           : n \in 0..MaxStacks}

\* The pages ListStacks returns a listing in: size stacks a page, one page at
\* least.
RECURSIVE PagesOf(_, _)
PagesOf(listing, size) ==
    IF Len(listing) <= size THEN <<listing>>
    ELSE <<SubSeq(listing, 1, size)>>
         \o PagesOf(SubSeq(listing, size + 1, Len(listing)), size)

\* The values of the name argument, --desc and --no-desc.
NameArgs == {<<>>, <<"a">>, <<"B">>, <<"a", "b">>}
DescContainsArgs == {<<>>, <<"x">>, <<"Y">>}
DescNotContainsArgs == {<<>>, <<"y">>, <<"X">>}

\* A plausible slip: --no-desc is looked at only when --desc is not given.
KeepStackOneDescFilter(stack, nameFilter, descContains, descNotContains) ==
    LET desc == ToLower(getValue(stack.hasDesc, stack.TemplateDescription))
    IN  /\ ~(nameFilter # <<>>
             /\ (~stack.hasName
                 \/ ~Contains(ToLower(stack.StackName), ToLower(nameFilter))))
        /\ ~(descContains # <<>> /\ ~Contains(desc, ToLower(descContains)))
        /\ ~(descContains = <<>> /\ descNotContains # <<>>
             /\ Contains(desc, ToLower(descNotContains)))

\* The body of the inner loop of listStacks: the stack is appended unless one
\* of the three tests says continue.
KeepStack(stack, nameFilter, descContains, descNotContains) ==
    LET desc == ToLower(getValue(stack.hasDesc, stack.TemplateDescription))
    IN  /\ ~(nameFilter # <<>>
             /\ (~stack.hasName
                 \/ ~Contains(ToLower(stack.StackName), ToLower(nameFilter))))
        /\ ~(descContains # <<>> /\ ~Contains(desc, ToLower(descContains)))
        /\ ~(descNotContains # <<>> /\ Contains(desc, ToLower(descNotContains)))

\* A plausible slip: after a stack is dropped the next one is appended
\* without being tested.
RECURSIVE FilterPageSkipsTest(_, _, _, _)
FilterPageSkipsTest(page, nameFilter, descContains, descNotContains) ==
    IF page = <<>> THEN <<>>
    ELSE IF KeepStack(Head(page), nameFilter, descContains, descNotContains)
         THEN <<Head(page)>>
              \o FilterPageSkipsTest(Tail(page), nameFilter, descContains,
                                     descNotContains)
    ELSE IF Tail(page) = <<>> THEN <<>>
    ELSE <<Head(Tail(page))>>
         \o FilterPageSkipsTest(Tail(Tail(page)), nameFilter, descContains,
                                descNotContains)

\* The inner loop of listStacks over one page.
FilterPage(page, nameFilter, descContains, descNotContains) ==
    SelectSeq(page, LAMBDA stack :
                  KeepStack(stack, nameFilter, descContains, descNotContains))

\* listStacks is called: nothing is fetched yet.
StackFilterInit ==
    /\ cpc = "paging"
    /\ \E listing \in Listings, size \in {1, 2} :
          cargs \in [nameFilter : NameArgs, descContains : DescContainsArgs,
                     descNotContains : DescNotContainsArgs,
                     pages : {PagesOf(listing, size)}]
    /\ cret = [all |-> <<>>, fetched |-> 0, err |-> FALSE]
    /\ OnlyCall

\* A page of the listing fails: listStacks returns nil and the error.
StackPageFail ==
    /\ cpc = "paging"
    /\ cret' = [all |-> <<>>, fetched |-> cret.fetched, err |-> TRUE]
    /\ cpc' = "returned"
    /\ UNCHANGED <<cargs, tailVars, driftVars, listVars>>

\* A page arrives and its stacks go through the filter; after the last page
\* listStacks returns what it has appended.
StackPageOk ==
    /\ cpc = "paging"
    /\ cret' = [all |-> cret.all
                        \o FilterPage(cargs.pages[cret.fetched + 1],
                                      cargs.nameFilter, cargs.descContains,
                                      cargs.descNotContains),
                fetched |-> cret.fetched + 1,
                err |-> FALSE]
    /\ cpc' = IF cret.fetched + 1 = Len(cargs.pages) THEN "returned" ELSE "paging"
    /\ UNCHANGED <<cargs, tailVars, driftVars, listVars>>

StackFilterNext ==
    \/ StackPageFail
    \/ StackPageOk

SpecStackFilter == StackFilterInit /\ [][StackFilterNext]_vars

(***************************************************************************)
(* Properties of cfn tail                                                  *)
(***************************************************************************)

EventLineIdx == {i \in DOMAIN tout : tout[i].line = "event"}

\* The lines the step has added to stdout.
PrintedByStep == SubSeq(tout', Len(tout) + 1, Len(tout'))

\* The step is a successful poll iteration (tail.go:85, err == nil).
PollOkStep == tpc = "fetch" /\ tpc' # "fetch" /\ terr' = "nil"

\* The step is a poll iteration whose listEvents failed (tail.go:86-92).
PollFailStep ==
    /\ tpc = "fetch"
    /\ terr' \in {"warned", "silent"}
    /\ (tpc' # tpc \/ terr' # terr)

\* C1: the timestamps of the event lines runTail prints, the seed event first
\* and then every polled event, never decrease: within one poll and from one
\* poll to the next.
C1_TimestampsNonDecreasing ==
    \A i, j \in EventLineIdx : i < j => tout[i].ts <= tout[j].ts

\* C1 witness: the seed event, then a poll that printed two events of
\* different timestamps.
C1_Witness ==
    /\ Len(tout) = 4
    /\ emitted = 2
    /\ tout[2].line = "event"
    /\ tout[2].ts <= tout[3].ts
    /\ tout[3].ts < tout[4].ts

\* The events of the fetched log that the previous successful poll had not
\* returned.
AppendedSincePoll == {i \in DOMAIN log : log[i].key \notin polledKeys}

\* C2: no event is printed twice in a tail session; and when a poll returns
\* what the previous poll returned plus events (carrying an EventId, as e4
\* does) appended at the timestamp of the high-water mark, that poll prints
\* exactly the appended events.
C2_NoEventTwice ==
    /\ [](\A i, j \in EventLineIdx : i # j => tout[i].key # tout[j].key)
    /\ [][(/\ PollOkStep
           /\ polled
           /\ \A i \in AppendedSincePoll :
                 log[i].Timestamp = since /\ log[i].EventId # EmptyId)
          => (/\ Len(tout') = Len(tout) + Cardinality(AppendedSincePoll)
              /\ SubSeq(tout', 1, Len(tout)) = tout
              /\ {PrintedByStep[k].key : k \in DOMAIN PrintedByStep}
                   = {log[i].key : i \in AppendedSincePoll}
              /\ \A k \in DOMAIN PrintedByStep :
                    PrintedByStep[k].line = "event")]_vars

\* C2 witness: the seed printed e1, a poll then printed e2, and the next poll,
\* which found e3 appended at e2's timestamp, printed e3 alone.
C2_Witness ==
    /\ polled
    /\ emitted = 1
    /\ Len(log) = 3
    /\ log[1].key = 3 /\ log[2].key = 2 /\ log[3].key = 1
    /\ log[1].Timestamp = log[2].Timestamp
    /\ log[3].Timestamp < log[2].Timestamp
    /\ tout = <<BannerLine, EventLine(log[3]), EventLine(log[2]),
                EventLine(log[1])>>
    /\ since = log[1].Timestamp
    /\ seenEventIDs = {log[1].EventId, log[2].EventId}

\* C4: when the event fetch of a poll iteration fails, nothing is printed, the
\* high-water mark and seenEventIDs stay as they are and the loop is back at
\* its select; a fetch is only ever started by taking a tick from the ticker.
C4_FetchFailureContinues ==
    /\ [][PollFailStep =>
            (/\ tout' = tout
             /\ since' = since
             /\ seenEventIDs' = seenEventIDs
             /\ tpc' = "select")]_vars
    /\ [][(tpc' = "fetch" /\ tpc # "fetch") =>
            (/\ tpc = "select"
             /\ tickPending
             /\ ~tickPending')]_vars

\* C4 witness: a fetch failed with a warning while the log held an event the
\* loop would have printed; the loop is at its select, nothing printed.
C4_Witness ==
    /\ tpc = "select"
    /\ terr = "warned"
    /\ emitted = 0
    /\ ~ctxDone
    /\ \E i \in DOMAIN log : IsNewEvent(log[i], since, seenEventIDs)

\* C6: once in its polling loop runTail leaves it only by the ctx.Done() case,
\* after the cancellation signal; the "Stopped." acknowledgement is then the
\* last line and nothing is printed after it.
C6_OnlyCancellationEndsLoop ==
    /\ [](tpc = "done" => ctxDone /\ tout[Len(tout)] = StoppedLine)
    /\ [](\A i \in DOMAIN tout : tout[i] = StoppedLine =>
             i = Len(tout) /\ tpc = "done")
    /\ [][(tpc \in {"select", "fetch"}) =>
            (\/ tpc' \in {"select", "fetch"}
             \/ (tpc' = "done" /\ tpc = "select" /\ ctxDone))]_vars
    /\ [][tpc = "done" => tpc' = "done" /\ tout' = tout]_vars

\* C6 witness: a session that printed polled events and lived through a failed
\* fetch has ended with the acknowledgement.
C6_Witness ==
    /\ tpc = "done"
    /\ terr = "warned"
    /\ polled
    /\ Cardinality(EventLineIdx) >= 2
    /\ tout[Len(tout)] = StoppedLine

\* C7: after the cancellation signal is delivered to a runTail that is in its
\* loop, waiting for a tick or in a fetch, it eventually prints the
\* acknowledgement and returns; at the select the ctx.Done() case can be taken
\* whether or not a tick is pending, so no further tick is needed.
C7_CancelEventuallyStops ==
    /\ [](ctxDone /\ tpc = "select" => ENABLED SelectCancel)
    /\ (ctxDone /\ tpc \in {"select", "fetch"}) ~> (tpc = "done")

\* C7 witness: the signal came while a fetch was in flight (the fetch ended
\* with the context's error, no warning) and the session has stopped with no
\* tick pending.
C7_Witness ==
    /\ tpc = "done"
    /\ terr = "silent"
    /\ ~tickPending
    /\ tout[Len(tout)] = StoppedLine

\* The step is the seed fetch returning (tail.go:44-74).
SeedStep == tpc = "seed" /\ tpc' = "select"

\* C13: the seed fetch asks for one event and gets the newest of the log;
\* when there is one, the high-water mark becomes its timestamp, seenEventIDs
\* the set holding its id (the empty set when the event carries no id), and
\* its line is printed right after the banner, before the loop is entered.
\* Lines are only ever appended, so the seed line stays the first event line;
\* no poll prints that event again.
C13_SeedPrintedOnce ==
    /\ [][SeedStep =>
            LET events == listEvents(log, 1)
            IN  /\ Len(events) <= 1
                /\ ~polled /\ tout = <<>>
                /\ (log = <<>>) =>
                      (/\ events = <<>>
                       /\ since' = ZeroTime /\ seenEventIDs' = {}
                       /\ tout' = <<BannerLine>>)
                /\ (log # <<>>) =>
                      (/\ events = <<log[1]>>
                       /\ \A i \in DOMAIN log :
                             log[i].Timestamp <= log[1].Timestamp
                       /\ since' = log[1].Timestamp
                       /\ seenEventIDs' = (IF log[1].EventId # EmptyId
                                           THEN {log[1].EventId} ELSE {})
                       /\ tout' = <<BannerLine, EventLine(log[1])>>)]_vars
    /\ [][SubSeq(tout', 1, Len(tout)) = tout]_vars
    /\ [][PollOkStep =>
            (\A i \in DOMAIN PrintedByStep :
                \A j \in EventLineIdx : PrintedByStep[i].key # tout[j].key)]_vars
    /\ [](tpc = "seed" => EventLineIdx = {})

\* C13 witness: the log held two events of one timestamp when runTail
\* started; the seed printed only the newest (key 2); a later poll returned
\* both and printed the other one, not the seed event again.
C13_Witness ==
    /\ polled
    /\ Len(tout) = 3
    /\ tout[2].line = "event" /\ tout[2].key = 2
    /\ tout[3].line = "event" /\ tout[3].key = 1
    /\ tout[2].ts = tout[3].ts
    /\ polledKeys = {1, 2}
    /\ <<2>> \in seenEventIDs

\* The events the poll of this step has fetched (listEvents with limit 0).
FetchedByStep == listEvents(log, 0)

\* The classification against the cursor the poll starts with: strictly after
\* the high-water mark, or at it with an EventId that is there and not seen.
AfterMark(e) == e.Timestamp > since
AtMarkUnseen(e) ==
    e.Timestamp = since /\ e.EventId # EmptyId /\ e.EventId \notin seenEventIDs
AtMarkNotInSeen(e) ==
    e.Timestamp = since /\ e.EventId \notin seenEventIDs

\* The step appends to stdout one event line for each fetched event whose
\* index is in newIdx, and nothing else.
PrintsExactly(newIdx) ==
    /\ SubSeq(tout', 1, Len(tout)) = tout
    /\ Len(tout') = Len(tout) + Cardinality(newIdx)
    /\ \A k \in DOMAIN PrintedByStep : PrintedByStep[k].line = "event"
    /\ {PrintedByStep[k].key : k \in DOMAIN PrintedByStep}
         = {FetchedByStep[i].key : i \in newIdx}

\* C20 as stated: in each poll a fetched event is printed if and only if its
\* timestamp is strictly after the high-water mark, or equals it and its
\* identifier is not in seenEventIDs, the empty identifier of an event
\* without EventId included.
C20_NewByMarkOrNotInSeen ==
    [][PollOkStep =>
         PrintsExactly({i \in DOMAIN FetchedByStep :
                          \/ AfterMark(FetchedByStep[i])
                          \/ AtMarkNotInSeen(FetchedByStep[i])})]_vars

\* C20, amended: in each poll a fetched event is printed if and only if its
\* timestamp is strictly after the high-water mark, or equals it and the
\* event has an EventId that is not in seenEventIDs; every other fetched
\* event, an event at the high-water mark without EventId among them, is not
\* printed.
C20_NewByMarkOrUnseenId ==
    [][PollOkStep =>
         PrintsExactly({i \in DOMAIN FetchedByStep :
                          \/ AfterMark(FetchedByStep[i])
                          \/ AtMarkUnseen(FetchedByStep[i])})]_vars

\* C20 witness: the seed printed e1; the next poll fetched e1, e2 at e1's
\* timestamp and e3 after it, all with an EventId, and printed e2 and e3 but
\* not e1 again.
C20_Witness ==
    /\ polled
    /\ emitted = 2
    /\ polledKeys = {1, 2, 3}
    /\ Len(log) = 3
    /\ \A i \in DOMAIN log : log[i].EventId # EmptyId
    /\ Len(tout) = 4
    /\ tout[2] = [line |-> "event", key |-> 1, ts |-> 1]
    /\ tout[3] = [line |-> "event", key |-> 2, ts |-> 1]
    /\ tout[4] = [line |-> "event", key |-> 3, ts |-> 2]

\* The events of the log that carry the identifier id.
EventsWithId(id) == {i \in DOMAIN log : log[i].EventId = id}

\* The events of the log at the high-water mark.
EventsAtMark == {i \in DOMAIN log : log[i].Timestamp = since}

\* C21: in every reachable state of a tail session seenEventIDs holds only
\* identifiers of events whose timestamp equals the high-water mark, so it is
\* no larger than the number of events sharing that timestamp.
C21_SeenIdsOnlyAtMark ==
    /\ \A id \in seenEventIDs :
          \A i \in EventsWithId(id) : log[i].Timestamp = since
    /\ Cardinality(seenEventIDs) <= Cardinality(EventsAtMark)

\* The greatest timestamp among the event lines printed so far.
GreatestPrinted ==
    CHOOSE t \in {tout[i].ts : i \in EventLineIdx} :
        \A i \in EventLineIdx : tout[i].ts <= t

\* The identifiers of the events whose lines have been printed.
PrintedIds ==
    {log[j].EventId : j \in {j \in DOMAIN log :
        /\ log[j].EventId # EmptyId
        /\ \E i \in EventLineIdx : tout[i].key = log[j].key}}

\* C22: the high-water mark never decreases; a step changes it only by
\* printing an event with a strictly greater timestamp, which becomes the
\* mark; whenever the loop is at rest the mark is the greatest timestamp among
\* the events printed so far, the seed included (the zero time when none has
\* been printed); and the EventId of every printed event is in seenEventIDs.
C22_MarkIsGreatestPrinted ==
    /\ [][since' >= since]_vars
    /\ [][(since' # since) =>
            \E k \in DOMAIN PrintedByStep :
               /\ PrintedByStep[k].line = "event"
               /\ PrintedByStep[k].ts = since'
               /\ PrintedByStep[k].ts > since]_vars
    /\ [](tpc # "seed" =>
            since = IF EventLineIdx = {} THEN ZeroTime ELSE GreatestPrinted)
    /\ [](PrintedIds \subseteq seenEventIDs)

\* C22 witness: the seed printed e1, and a poll printed e2 at e1's timestamp,
\* which left the mark alone, and e3 after it, which advanced the mark.
C22_Witness ==
    /\ polled
    /\ emitted = 2
    /\ Len(tout) = 4
    /\ tout[2] = [line |-> "event", key |-> 1, ts |-> 1]
    /\ tout[3] = [line |-> "event", key |-> 2, ts |-> 1]
    /\ tout[4] = [line |-> "event", key |-> 3, ts |-> 2]
    /\ since = 2
    /\ PrintedIds = seenEventIDs
    /\ Cardinality(seenEventIDs) >= 2

\* In a session whose seed fetch found an event, the second line of stdout is
\* the seed line. The seed event is the newest of the log and, among the
\* events of its timestamp, the one appended last: an event with a smaller
\* key was in the log before the seed fetch, and an event with a greater key
\* that was there too is older than the seed event (and, by C1, not printed).
SeedKey == tout[2].key

\* C25: when the log is not empty at the seed fetch, no event that was in the
\* log before the seed fetch, other than the seed event, is printed during the
\* session, not even an older event of the seed event's timestamp.
C25_NoEventFromBeforeSeed ==
    \A i \in EventLineIdx : i > 2 => tout[i].key > SeedKey

\* The events the poll of this step returns for the first time and that were
\* appended after the seed fetch. After a successful poll these are the events
\* that poll had not returned. At the first successful poll stdout is as the
\* seed left it: with a seed line they are the events appended after the seed
\* event (one of these that was there before the seed fetch is older than the
\* high-water mark), without one the log was empty and they are all events.
FirstFetchedByStep ==
    IF polled THEN AppendedSincePoll
    ELSE IF Len(tout) >= 2 THEN {i \in DOMAIN log : log[i].key > SeedKey}
    ELSE DOMAIN log

\* The lines the step prints for the event at position i of the log.
LinesOf(i) == {k \in DOMAIN PrintedByStep : PrintedByStep[k].key = log[i].key}

\* C26: when every event carries an EventId (unique by construction) and a
\* poll returns the whole log, the first successful poll that returns an event
\* appended after the seed fetch prints it, once, if its timestamp is not
\* older than the high-water mark of that moment, and does not print it if it
\* is older; a later poll prints no event an earlier poll has returned, and no
\* event is ever printed twice.
C26_PrintedOnceAtFirstFetch ==
    /\ [][(PollOkStep /\ \A i \in DOMAIN log : log[i].EventId # EmptyId)
          => (/\ SubSeq(tout', 1, Len(tout)) = tout
              /\ \A i \in FirstFetchedByStep :
                    Cardinality(LinesOf(i))
                      = IF log[i].Timestamp >= since THEN 1 ELSE 0
              /\ polled =>
                    \A i \in DOMAIN log \ FirstFetchedByStep :
                       LinesOf(i) = {})]_vars
    /\ [](\A i, j \in EventLineIdx : i < j => tout[i].key # tout[j].key)

\* C26 witness: the seed printed e1; the first poll returned e2, newer, and
\* printed it; the second poll returned e3, appended with e1's timestamp and
\* so older than the mark, and printed nothing.
C26_Witness ==
    /\ polled
    /\ emitted = 0
    /\ polledKeys = {1, 2, 3}
    /\ \A i \in DOMAIN log : log[i].EventId # EmptyId
    /\ tout = <<BannerLine,
                [line |-> "event", key |-> 1, ts |-> 1],
                [line |-> "event", key |-> 2, ts |-> 2]>>
    /\ since = 2
    /\ \E i \in DOMAIN log : log[i].key = 3 /\ log[i].Timestamp = 1

\* C27: once the context is cancelled runTail starts no event fetch: a select
\* that finds the cancellation and a tick both ready takes the cancellation.
C27_NoFetchAfterCancel ==
    [][(ctxDone) => ~(tpc = "select" /\ tpc' = "fetch")]_vars

(***************************************************************************)
(* Properties of cfn drift                                                 *)
(***************************************************************************)

LastAnswer == answers[Len(answers)]

InProgressCount ==
    Cardinality({i \in DOMAIN answers :
                    answers[i].status = "DETECTION_IN_PROGRESS"})

\* printDriftResults calls that have printed their status header.
Headers ==
    Cardinality({i \in DOMAIN dout : dout[i].line = "Stack drift status"})

\* Results rendered in full: the summary table, or "No drifted resources.".
Rendered ==
    Cardinality({i \in DOMAIN dout :
                    dout[i].line \in {"table", "No drifted resources."}})

\* C3: with --wait, k IN_PROGRESS answers followed by COMPLETE make exactly
\* k+1 status queries, one listing of the drifted resources and one result
\* (printDriftResults runs once; its summary is printed once the listing is
\* in); no status query follows a terminal answer; after FAILED there is no
\* listing and no result, and runDrift has ended in the fatal error that
\* carries the provider's reason.
C3_DriftQueryCounts ==
    /\ answers # <<>> => wait
    /\ statusQueries = Len(answers)
    /\ \A i \in DOMAIN answers :
          i < Len(answers) => answers[i].status = "DETECTION_IN_PROGRESS"
    /\ (wait /\ dpc = "done") =>
          (answers # <<>> /\ LastAnswer.status = "DETECTION_COMPLETE")
    /\ (answers # <<>> /\ LastAnswer.status = "DETECTION_COMPLETE") =>
          /\ statusQueries = InProgressCount + 1
          /\ driftFetches = 1
          /\ Headers = 1
          /\ Rendered <= 1
          /\ dpc \in {"drifts", "done", "fatal"}
          /\ dpc = "done" => Rendered = 1
          /\ dpc = "fatal" => dfatal.msg = "failed to list drifted resources"
    /\ (answers # <<>> /\ LastAnswer.status = "DETECTION_FAILED") =>
          /\ statusQueries = InProgressCount + 1
          /\ driftFetches = 0
          /\ Headers = 0
          /\ Rendered = 0
          /\ dpc = "fatal"
          /\ dfatal = [msg |-> "drift detection failed",
                       reason |-> LastAnswer.reason]

\* C3 witness: IN_PROGRESS, IN_PROGRESS, COMPLETE: three status queries, one
\* listing, one rendered result.
C3_Witness ==
    /\ dpc = "done"
    /\ wait
    /\ InProgressCount = 2
    /\ statusQueries = 3
    /\ driftFetches = 1
    /\ Rendered = 1

\* C5 as stated: a failed status query does not end the drift run; the loop
\* goes on to its next sleep and query.
C5_StatusErrorContinuesLoop ==
    (answers # <<>> /\ LastAnswer.status = "ERROR") => dpc \in {"sleep", "query"}

\* C5, amended: a failed status query ends the drift run: runDrift exits in
\* the fatal error "failed to get drift status", with no further status
\* query, no listing of drifted resources and no result. Every status query
\* that is issued follows the 3 second sleep of its iteration.
C5_StatusErrorIsFatal ==
    /\ [](\A i \in DOMAIN answers : answers[i].status = "ERROR" =>
             /\ i = Len(answers)
             /\ statusQueries = Len(answers)
             /\ dpc = "fatal"
             /\ dfatal.msg = "failed to get drift status"
             /\ driftFetches = 0
             /\ Rendered = 0)
    /\ [][(statusQueries' # statusQueries) =>
            (dpc = "query" /\ statusQueries' = statusQueries + 1)]_vars
    /\ [][(dpc' = "query" /\ dpc # "query") =>
            (dpc = "sleep" /\ dout' = Append(dout, DLine(".")))]_vars

\* C5 witness: two IN_PROGRESS answers, then the status query failed and
\* runDrift has exited.
C5_Witness ==
    /\ Len(answers) = 3
    /\ LastAnswer.status = "ERROR"
    /\ dpc = "fatal"
    /\ dfatal.msg = "failed to get drift status"

\* The lines of dout that report the detection id.
StartedLines == {i \in DOMAIN dout : dout[i] = DLine("Drift detection started")}

\* C12: runDrift starts drift detection exactly once per run; when the start
\* succeeded the detection id is the first line reported, once, whatever the
\* value of wait, and before any status query; with wait false runDrift then
\* stops: no status query and no resource-drift listing is ever issued.
C12_DetectOnceAndReport ==
    /\ detectCalls = (IF dpc = "start" THEN 0 ELSE 1)
    /\ (dpc # "start" /\ dfatal.msg # "failed to initiate drift detection") =>
          (1 \in StartedLines /\ Cardinality(StartedLines) = 1)
    /\ (statusQueries > 0 \/ driftFetches > 0) => (wait /\ 1 \in StartedLines)
    /\ (~wait /\ dpc # "start") =>
          /\ dpc \in {"done", "fatal"}
          /\ statusQueries = 0
          /\ driftFetches = 0
          /\ answers = <<>>
          /\ dpc = "done" =>
                dout = <<DLine("Drift detection started"), DLine("Use --wait")>>

\* C12 witness: without --wait the detection was started, its id reported,
\* and runDrift returned without a query.
C12_Witness ==
    /\ ~wait
    /\ dpc = "done"
    /\ detectCalls = 1
    /\ 1 \in StartedLines
    /\ statusQueries = 0

\* The rows of the summary table and the detail blocks in dout, in order.
SummaryRows == SelectSeq(dout, LAMBDA l : l.line = "row")
DetailsPrinted == SelectSeq(dout, LAMBDA l : l.line = "detail")

\* The fetched resources that have at least one property difference.
WithDifferences == SelectSeq(drifted, LAMBDA d : d.diffs > 0)

\* C14: the listing that follows COMPLETE asks for the drift statuses
\* MODIFIED and DELETED only, so no resource of another status is fetched;
\* the pages are appended in the order they arrive; when the listing is in,
\* the summary table has one row per fetched resource, in fetch order, with
\* the count of its property differences, and after the table there is one
\* detail block for each fetched resource with at least one difference and
\* for no other. Nothing of this is printed before the listing is complete.
C14_DriftOutput ==
    /\ [][(dpc = "query" /\ dpc' = "drifts") =>
            (/\ drifted' = <<>>
             /\ \A i \in DOMAIN Flatten(pagesLeft') :
                   Flatten(pagesLeft')[i].status \in {"MODIFIED", "DELETED"})]_vars
    /\ [][(dpc = "drifts") =>
            (drifted' \o Flatten(pagesLeft') = drifted \o Flatten(pagesLeft))]_vars
    /\ [](\A i \in DOMAIN drifted : drifted[i].status \in {"MODIFIED", "DELETED"})
    /\ [](dpc # "done" => (SummaryRows = <<>> /\ DetailsPrinted = <<>>))
    /\ []((dpc = "done" /\ wait) =>
            /\ pagesLeft = <<>>
            /\ SummaryRows = [i \in DOMAIN drifted |->
                                [line |-> "row", id |-> drifted[i].id,
                                 n |-> drifted[i].diffs]]
            /\ DetailsPrinted = [i \in DOMAIN WithDifferences |->
                                   [line |-> "detail", id |-> WithDifferences[i].id,
                                    n |-> WithDifferences[i].diffs]]
            /\ \A i, j \in DOMAIN dout :
                  (dout[i].line = "row" /\ dout[j].line = "detail") => i < j
            /\ (drifted = <<>>) =
                  (dout[Len(dout)] = DLine("No drifted resources.")))

\* C14 witness: two resources arrived on two pages, the first without and the
\* second with a property difference: two rows, one detail block.
C14_Witness ==
    /\ dpc = "done" /\ wait
    /\ Len(drifted) = 2
    /\ drifted[1].diffs = 0 /\ drifted[2].diffs = 1
    /\ drifted[1].status = "DELETED" /\ drifted[2].status = "MODIFIED"
    /\ Len(SummaryRows) = 2
    /\ Len(DetailsPrinted) = 1
    /\ DetailsPrinted[1].id = drifted[2].id

\* The step is a status query of the poll loop and its answer.
StatusQueryStep == dpc = "query" /\ statusQueries' = statusQueries + 1

FinalAnswers == {"DETECTION_COMPLETE", "DETECTION_FAILED", "ERROR"}

\* C23: with wait set, a runDrift whose provider eventually gives a final
\* answer (COMPLETE, FAILED or a failed query) terminates; and the loop has no
\* cap of its own: an answer that is not final sends it round again however
\* many queries have been made, and only a final answer leaves the loop.
C23_EndsOnlyOnFinalAnswer ==
    /\ (dpc = "sleep") ~> (dpc \in {"done", "fatal"})
    /\ [][StatusQueryStep =>
            IF answers'[Len(answers')].status \in FinalAnswers
            THEN dpc' \in {"drifts", "fatal"}
            ELSE dpc' = "sleep" /\ dfatal' = dfatal /\ dout' = dout]_vars
    /\ [][(dpc \in {"sleep", "query"} /\ dpc' \notin {"sleep", "query"})
            => (/\ StatusQueryStep
                /\ answers'[Len(answers')].status \in FinalAnswers)]_vars

\* C23 witness: a waiting run that was answered IN_PROGRESS as often as the
\* provider can, made one more query than that and then ended.
C23_Witness ==
    /\ wait
    /\ InProgressCount = MaxInProgress
    /\ statusQueries = MaxInProgress + 1
    /\ dpc = "done"

(***************************************************************************)
(* Properties of cfn list                                                  *)
(***************************************************************************)

\* The candidates among the first n that the search kept: those for which
\* searchStackTemplate returned a match and no error, in candidate order.
RECURSIVE KeptUpTo(_)
KeptUpTo(n) ==
    IF n = 0 THEN <<>>
    ELSE KeptUpTo(n - 1)
         \o (IF searched[n].hasMatch /\ searched[n].err = "nil"
             THEN <<stacks[n]>> ELSE <<>>)

\* The template of a candidate cannot be fetched or parsed.
TemplateUnavailable(st) ==
    st.template.fetch # "ok" \/ st.template.format \notin {"json", "yaml"}

\* C8: a run of list that ends with the invalid-property-format error has
\* performed no stack listing and no template fetch.
C8_MalformedRejectedBeforeNetwork ==
    (lfatal = "invalid property format") =>
        (listCalls = 0 /\ templateFetches = 0)

\* C9: in a resource search the result is exactly the candidates for which
\* searchStackTemplate returned a match without error, in candidate order; a
\* candidate whose template cannot be fetched or parsed is left out without
\* any error being reported, and the loop goes on: a run that has entered
\* the loop ends only after every candidate was looked at, either printing
\* the result or exiting with "No stacks found containing".
C9_BestEffortSearch ==
    /\ matching = KeptUpTo(Len(searched))
    /\ \A i \in DOMAIN searched :
          (stacks[i].named /\ TemplateUnavailable(stacks[i])) =>
              /\ searched[i].err # "nil"
              /\ \A j \in DOMAIN matching : matching[j].id # stacks[i].id
    /\ (idx >= 1 /\ lpc \in {"done", "exit"}) =>
          /\ Len(searched) = Len(stacks)
          /\ lfatal \in {"none", "No stacks found containing"}
          /\ (lpc = "done") = (matching # <<>>)
          /\ lpc = "done" => lout = [j \in DOMAIN matching |-> matching[j].id]

\* C9 witness: the first candidate's template could not be fetched, the
\* second candidate was still searched and is the whole result.
C9_Witness ==
    /\ lpc = "done"
    /\ Len(stacks) = 2 /\ Len(searched) = 2
    /\ stacks[1].named /\ stacks[1].template = TplFetchError
    /\ searched[1].err = "GetTemplate"
    /\ searched[2] = [hasMatch |-> TRUE, err |-> "nil"]
    /\ matching = <<stacks[2]>>
    /\ lout = <<2>>

\* The entry of Resources is a resource definition that meets the name and
\* type filters.
MeetsNameAndType(logicalID, res) ==
    /\ res.isMap
    /\ resourceName = <<>> \/ containsWithCase(logicalID, resourceName, ignoreCase)
    /\ resourceType = <<>>
       \/ (res.hasType /\ equalsWithCase(res.Type, resourceType, ignoreCase))

\* The resource meets every filter in some resolution of the property paths.
MayMeetAll(logicalID, res) ==
    /\ MeetsNameAndType(logicalID, res)
    /\ \A k \in DOMAIN propertyFilters :
          /\ res.hasProps
          /\ \E v \in getNestedProperty(res.Properties, k, ignoreCase) :
                /\ v # NilV
                /\ equalsWithCase(Sprint(v), propertyFilters[k], ignoreCase)

\* The resource meets every filter in every resolution of the property paths
\* (the two differ only where a mapping has two keys equal up to case).
MustMeetAll(logicalID, res) ==
    /\ MeetsNameAndType(logicalID, res)
    /\ \A k \in DOMAIN propertyFilters :
          /\ res.hasProps
          /\ \A v \in getNestedProperty(res.Properties, k, ignoreCase) :
                /\ v # NilV
                /\ equalsWithCase(Sprint(v), propertyFilters[k], ignoreCase)

\* What the search of the template with resources A and B has to answer for
\* the filters of the run, where the examples say so.
ExampleAnswer ==
    CASE resourceName = <<>> /\ resourceType = T1 /\ DOMAIN propertyFilters = {}
            -> {TRUE}
      [] resourceName = <<"B">> /\ resourceType = <<>>
         /\ DOMAIN propertyFilters = {}
            -> {TRUE}
      [] resourceName = <<>> /\ resourceType = <<>>
         /\ DOMAIN propertyFilters = {<<"X", ".", "Y">>}
         /\ propertyFilters[<<"X", ".", "Y">>] = <<"2">>
            -> {TRUE}
      [] resourceName = <<>> /\ resourceType = T1
         /\ DOMAIN propertyFilters = {KX} /\ propertyFilters[KX] = <<"1">>
            -> {TRUE}
      [] resourceName = <<>> /\ resourceType = T1
         /\ DOMAIN propertyFilters = {KX} /\ propertyFilters[KX] = <<"2">>
            -> {FALSE}
      [] OTHER -> BOOLEAN

\* C10: for a template that was fetched and parsed, searchStackTemplate
\* returns no error, and a match iff the template has a Resources mapping
\* with one resource definition that meets all active filters at once: the
\* name filter on its logical id, the type filter on its Type, and every
\* property filter on the value its dotted path resolves to in Properties,
\* compared in string form, all under the case rule of ignoreCase. Where a
\* path can resolve in two ways (keys equal up to case) a match is returned
\* only if some resolution meets the filters, and always if every one does.
\* The answers for the template with A and B are those of the examples; a
\* template without a Resources mapping gives no match and no error.
C10_MatchIffOneResourceMeetsAll ==
    \A i \in DOMAIN searched :
        LET tpl == stacks[i].template
        IN  (stacks[i].named /\ ~TemplateUnavailable(stacks[i])) =>
               /\ searched[i].err = "nil"
               /\ searched[i].hasMatch =>
                     /\ tpl.hasResources
                     /\ \E id \in DOMAIN tpl.Resources :
                           MayMeetAll(id, tpl.Resources[id])
               /\ (/\ tpl.hasResources
                   /\ \E id \in DOMAIN tpl.Resources :
                         MustMeetAll(id, tpl.Resources[id]))
                     => searched[i].hasMatch
               /\ tpl = TplAB => searched[i].hasMatch \in ExampleAnswer
               /\ ~tpl.hasResources => ~searched[i].hasMatch

\* C10 witness: searching for type T1 with X=1 found the template with A and
\* B (through A) and not the template without Resources.
C10_Witness ==
    /\ Len(searched) = 2
    /\ resourceType = T1 /\ resourceName = <<>> /\ ~ignoreCase
    /\ DOMAIN propertyFilters = {KX} /\ propertyFilters[KX] = <<"1">>
    /\ stacks[1].named /\ stacks[1].template = TplAB
    /\ stacks[2].named /\ stacks[2].template = TplNoResources
    /\ searched[1] = [hasMatch |-> TRUE, err |-> "nil"]
    /\ searched[2] = [hasMatch |-> FALSE, err |-> "nil"]

\* C28: searchStackTemplate is deterministic: in one search (fixed filters)
\* two candidates with the same template body get the same result, whatever
\* the order in which the Resources mapping and the Properties mappings are
\* iterated, also with ignoreCase set and keys equal up to letter case.
C28_SearchDeterministic ==
    \A i, j \in DOMAIN searched :
       (/\ stacks[i].named /\ stacks[j].named
        /\ stacks[i].template = stacks[j].template)
       => searched[i] = searched[j]

\* The position of the first "=" of a --property argument that has one, the
\* key before it and the value after it.
ArgCut(arg) ==
    CHOOSE n \in DOMAIN arg : arg[n] = "=" /\ \A j \in 1..(n - 1) : arg[j] # "="
ArgKey(arg) == SubSeq(arg, 1, ArgCut(arg) - 1)
ArgValue(arg) == SubSeq(arg, ArgCut(arg) + 1, Len(arg))

\* The last --property argument that carries the key k.
LastArgFor(k) ==
    CHOOSE i \in DOMAIN properties :
       /\ ArgKey(properties[i]) = k
       /\ \A j \in DOMAIN properties : j > i => ArgKey(properties[j]) # k

\* For every key of the --property arguments, the value of the last argument
\* with that key.
LastValues ==
    [k \in {ArgKey(properties[i]) : i \in DOMAIN properties} |->
        ArgValue(properties[LastArgFor(k)])]

\* C29: the filters runResourceSearch builds hold, for every key, the value
\* of the last --property argument with that key, the value being all that
\* follows the argument's first "="; and every candidate is searched with
\* these filters only: an earlier value for a key constrains nothing.
C29_LastPropertyWins ==
    /\ [][(lpc = "search" /\ lfatal' # "invalid property format")
            => propertyFilters' = LastValues]_vars
    /\ [][(lpc = "loop" /\ idx' = idx + 1 /\ stacks[idx].named)
            => searched'[idx] \in
                  searchStackTemplate(stacks[idx].template, resourceType,
                                      resourceName, LastValues, ignoreCase)]_vars

\* C29 witness: --property X=1 --property X=2 without ignoreCase found the
\* resource whose X is 2 and is not 1.
C29_Witness ==
    /\ properties = <<<<"X", "=", "1">>, <<"X", "=", "2">>>>
    /\ ~ignoreCase
    /\ resourceType = <<>> /\ resourceName = <<>>
    /\ propertyFilters = (KX :> <<"2">>)
    /\ Len(matching) >= 1
    /\ matching[1].template = TplMixed


(***************************************************************************)
(* Properties of one property filter                                       *)
(***************************************************************************)

\* The value found by following the keys ks from v through nested mappings;
\* NilV when a key is missing or the value reached is not a mapping.
RECURSIVE ValueAt(_, _)
ValueAt(v, ks) ==
    IF ks = <<>> THEN v
    ELSE IF v.kind = "map" /\ Head(ks) \in DOMAIN v.map
         THEN ValueAt(v.map[Head(ks)], Tail(ks))
         ELSE NilV

\* The keys the mappings of the lookup are written with.
LookupKeys == {Versioning, Status, KX, KY, <<"x">>}

\* The segments of the path of the call.
LookupParts == Split(cargs.path, ".")

\* The key sequences that the path names, segment by segment: exactly, or up
\* to case with ignoreCase.
NamedKeys ==
    {ks \in [1..Len(LookupParts) -> LookupKeys] :
        \A i \in DOMAIN ks :
            IF cargs.ignoreCase THEN EqualFold(ks[i], LookupParts[i])
            ELSE ks[i] = LookupParts[i]}

\* Some mapping in v holds two keys that are equal up to case.
RECURSIVE HasFoldTwins(_)
HasFoldTwins(v) ==
    /\ v.kind = "map"
    /\ \/ \E k1, k2 \in DOMAIN v.map : k1 # k2 /\ EqualFold(k1, k2)
       \/ \E k \in DOMAIN v.map : HasFoldTwins(v.map[k])

\* C11: getNestedProperty resolves the dotted path segment by segment: a
\* value it returns is the value found under keys the segments name; without
\* ignoreCase it returns the value at the path, which is absent when a
\* segment is missing or an intermediate value is not a mapping; with
\* ignoreCase and no two keys equal up to case it returns the value under the
\* keys named up to case. Versioning.Status gives "Enabled" against
\* {Versioning: {Status: "Enabled"}} and absent against
\* {Versioning: "Enabled"}. An absent value fails the filter, whatever the
\* expected value.
C11_NestedLookupFailsClosed ==
    (cpc = "returned") =>
        LET root == MapV(cargs.properties)
            v    == cret.value
        IN  /\ v # NilV => \E ks \in NamedKeys : v = ValueAt(root, ks)
            /\ ~cargs.ignoreCase => v = ValueAt(root, LookupParts)
            /\ ~HasFoldTwins(root) =>
                  \A ks \in NamedKeys :
                      ValueAt(root, ks) # NilV => v = ValueAt(root, ks)
            /\ (/\ cargs.path = Versioning \o <<".">> \o Status
                /\ cargs.properties = (Versioning :> MapV(Status :> StrV(Enabled))))
                  => v = StrV(Enabled)
            /\ (/\ cargs.path = Versioning \o <<".">> \o Status
                /\ cargs.properties = (Versioning :> StrV(Enabled)))
                  => v = NilV
            /\ v = NilV => ~cret.holds

\* C11 witness: Versioning.Status was looked up in {Versioning: "Enabled"}
\* with the expected value "Enabled": absent, and the filter failed.
C11_Witness ==
    /\ cpc = "returned"
    /\ cargs.path = Versioning \o <<".">> \o Status
    /\ cargs.properties = (Versioning :> StrV(Enabled))
    /\ cargs.expectedValue = Enabled
    /\ cret.value = NilV
    /\ ~cret.holds

(***************************************************************************)
(* Properties of the status filter                                         *)
(***************************************************************************)

\* The statuses a slice holds.
StatusSet(list) == {list[i] : i \in DOMAIN list}

\* The status sets the claims name, flag by flag.
SuccessSet ==
    {"CREATE_COMPLETE", "UPDATE_COMPLETE", "ROLLBACK_COMPLETE",
     "UPDATE_ROLLBACK_COMPLETE", "IMPORT_COMPLETE", "IMPORT_ROLLBACK_COMPLETE"}
CompleteSet == SuccessSet \cup {"DELETE_COMPLETE"}
DeletedSet == {"DELETE_IN_PROGRESS", "DELETE_FAILED", "DELETE_COMPLETE"}
InProgressSet ==
    {"CREATE_IN_PROGRESS", "DELETE_IN_PROGRESS", "ROLLBACK_IN_PROGRESS",
     "UPDATE_IN_PROGRESS", "UPDATE_COMPLETE_CLEANUP_IN_PROGRESS",
     "UPDATE_ROLLBACK_IN_PROGRESS",
     "UPDATE_ROLLBACK_COMPLETE_CLEANUP_IN_PROGRESS", "REVIEW_IN_PROGRESS",
     "IMPORT_IN_PROGRESS", "IMPORT_ROLLBACK_IN_PROGRESS"}

\* No status flag but possibly --all.
NoSelectiveFlag ==
    ~cargs.filterComplete /\ ~cargs.filterDeleted /\ ~cargs.filterInProgress

\* C15: with all = true buildStatusFilters returns nil, the "no filter"
\* result, for each of the eight combinations of the other three flags.
C15_AllMeansNoFilter ==
    (cpc = "returned" /\ cargs.filterAll) =>
        (cret.built.isNil /\ cret.built.list = <<>>)

\* C15 witness: all, complete, deleted and inProgress were all given.
C15_Witness ==
    /\ cpc = "returned"
    /\ cargs.filterAll /\ cargs.filterComplete
    /\ cargs.filterDeleted /\ cargs.filterInProgress
    /\ cret.built = NilStatuses

\* C16 as stated: with the four flags false buildStatusFilters returns
\* exactly the six success statuses and no other status.
C16_DefaultIsSuccessOnly ==
    (cpc = "returned" /\ ~cargs.filterAll /\ NoSelectiveFlag) =>
        (~cret.built.isNil /\ StatusSet(cret.built.list) = SuccessSet)

\* C16, amended: with the four flags false buildStatusFilters returns
\* sixteen statuses, each once: the six success statuses and the ten
\* in-progress statuses (DELETE_IN_PROGRESS and REVIEW_IN_PROGRESS among
\* them); DELETE_COMPLETE and the *_FAILED statuses are not in it.
C16_DefaultIsSuccessAndInProgress ==
    (cpc = "returned" /\ ~cargs.filterAll /\ NoSelectiveFlag) =>
        /\ ~cret.built.isNil
        /\ StatusSet(cret.built.list) = SuccessSet \cup InProgressSet
        /\ Len(cret.built.list) = 16
        /\ Cardinality(StatusSet(cret.built.list)) = 16
        /\ "DELETE_COMPLETE" \notin StatusSet(cret.built.list)
        /\ \A st \in StatusSet(cret.built.list) :
              st \notin {"CREATE_FAILED", "DELETE_FAILED", "ROLLBACK_FAILED",
                         "UPDATE_FAILED", "UPDATE_ROLLBACK_FAILED"}

\* C16 witness: no flag was given and the filter holds an in-progress status.
C16_Witness ==
    /\ cpc = "returned"
    /\ ~cargs.filterAll /\ NoSelectiveFlag
    /\ "CREATE_IN_PROGRESS" \in StatusSet(cret.built.list)
    /\ "CREATE_COMPLETE" \in StatusSet(cret.built.list)

\* C17: with all = false and at least one of the other flags true,
\* buildStatusFilters returns, as a set, the union of the sets of the flags
\* that are true: seven statuses for complete, three for deleted, ten for
\* inProgress, each flag adding its set whatever the other flags are.
C17_UnionOfRequestedFlags ==
    (cpc = "returned" /\ ~cargs.filterAll /\ ~NoSelectiveFlag) =>
        /\ ~cret.built.isNil
        /\ StatusSet(cret.built.list) =
              (IF cargs.filterComplete THEN CompleteSet ELSE {})
              \cup (IF cargs.filterDeleted THEN DeletedSet ELSE {})
              \cup (IF cargs.filterInProgress THEN InProgressSet ELSE {})
        /\ Cardinality(CompleteSet) = 7
        /\ Cardinality(DeletedSet) = 3
        /\ Cardinality(InProgressSet) = 10

\* C17 witness: complete and deleted were given, inProgress was not: the nine
\* statuses of the two sets.
C17_Witness ==
    /\ cpc = "returned"
    /\ ~cargs.filterAll /\ cargs.filterComplete /\ cargs.filterDeleted
    /\ ~cargs.filterInProgress
    /\ StatusSet(cret.built.list) = CompleteSet \cup DeletedSet
    /\ Cardinality(StatusSet(cret.built.list)) = 9

\* C24: for every combination of the four flags the status filter that
\* buildStatusFilters returns is a set: no status occurs in it twice.
C24_NoStatusTwice ==
    cpc = "returned" =>
       \A i, j \in DOMAIN cret.built.list :
          i # j => cret.built.list[i] # cret.built.list[j]

\* What a listing without resource filter asks for with the flags of the call.
PlainListingFilter ==
    buildStatusFilters(cargs.filterAll, cargs.filterComplete,
                       cargs.filterDeleted, cargs.filterInProgress)

\* C30: in runList a plain listing uses the filter buildStatusFilters gives; a
\* resource search (type, resource name or property given) with none of the
\* four status flags set lists with no status filter instead of the default
\* set; a resource search with at least one status flag set lists with
\* exactly the filter a plain listing with the same flags uses.
C30_ResourceSearchStatusFilter ==
    cpc = "returned" =>
       /\ ~isResourceSearch => cret.statusFilters = PlainListingFilter
       /\ (isResourceSearch /\ ~cargs.filterAll /\ NoSelectiveFlag)
             => (/\ cret.statusFilters = NilStatuses
                 /\ PlainListingFilter = StatusSlice(DefaultStatuses))
       /\ (isResourceSearch /\ (cargs.filterAll \/ ~NoSelectiveFlag))
             => cret.statusFilters = PlainListingFilter

\* C30 witness: a search by resource type with no status flag lists with no
\* status filter.
C30_Witness ==
    /\ cpc = "returned"
    /\ resourceType = T1 /\ resourceName = <<>> /\ properties = <<>>
    /\ ~cargs.filterAll /\ NoSelectiveFlag
    /\ cret.statusFilters = NilStatuses
    /\ ~cret.built.isNil

(***************************************************************************)
(* Properties of the stack filter                                          *)
(***************************************************************************)

\* The stacks of the pages fetched so far, in the provider's order.
FetchedStacks == Flatten(SubSeq(cargs.pages, 1, cret.fetched))

\* The description of a stack, the empty string when absent.
DescriptionOf(stack) == IF stack.hasDesc THEN stack.TemplateDescription ELSE <<>>

\* The stack satisfies all active predicates, the substrings looked for in
\* the text as it is.
SatisfiesExact(stack) ==
    /\ cargs.nameFilter = <<>>
       \/ (stack.hasName /\ Contains(stack.StackName, cargs.nameFilter))
    /\ cargs.descContains = <<>>
       \/ Contains(DescriptionOf(stack), cargs.descContains)
    /\ cargs.descNotContains = <<>>
       \/ ~Contains(DescriptionOf(stack), cargs.descNotContains)

\* The stack satisfies all active predicates, the substrings looked for with
\* both texts in lower case.
SatisfiesLowerCased(stack) ==
    /\ cargs.nameFilter = <<>>
       \/ (stack.hasName
           /\ Contains(ToLower(stack.StackName), ToLower(cargs.nameFilter)))
    /\ cargs.descContains = <<>>
       \/ Contains(ToLower(DescriptionOf(stack)), ToLower(cargs.descContains))
    /\ cargs.descNotContains = <<>>
       \/ ~Contains(ToLower(DescriptionOf(stack)),
                    ToLower(cargs.descNotContains))

C19_FilterIdempotent ==
    (cpc = "returned" /\ ~cret.err) =>
        FilterPage(cret.all, cargs.nameFilter, cargs.descContains,
                   cargs.descNotContains) = cret.all

\* C19 witness: a listing of two stacks of which the filter kept one.
C19_Witness ==
    /\ cpc = "returned" /\ ~cret.err
    /\ Len(FetchedStacks) = 2
    /\ Len(cret.all) = 1
    /\ cargs.descNotContains = <<"y">>
    /\ FilterPage(cret.all, cargs.nameFilter, cargs.descContains,
                  cargs.descNotContains) = cret.all

====
